---- MODULE Spec2Model ----
(***************************************************************************)
(* Model of the French/German connective alignment pipeline:               *)
(*   parse_all_alignments.py  (parse_alignments, parse_phrase_alignments,  *)
(*                             parse_discontinuous)                        *)
(*   processing_filtering.py  (counting, probabilities, the filter chain)  *)
(*   conn_search.py           (FindAlignments.find_conns, the controller)  *)
(*                                                                         *)
(* Python strings are TLA+ strings and are handled character by character  *)
(* (split, join, substring test), Python lists are sequences, the inner    *)
(* dictionaries, whose insertion order the filters walk, are sequences of  *)
(* <<key, value>> pairs, and the outer dictionaries are functions.         *)
(* Accented letters are written without their accent (a for a-grave,       *)
(* meme for m-e-circumflex-m-e).                                           *)
(***************************************************************************)
EXTENDS Integers, Sequences, FiniteSets, TLC

(***************************************************************************)
(* Strings                                                                 *)
(***************************************************************************)

\* s[i] for a 1-based i.
CharAt(s, i) == SubSeq(s, i, i)

\* Python "needle in hay" for strings.
StrIn(needle, hay) ==
    \/ Len(needle) = 0
    \/ \E i \in 1..(Len(hay) - Len(needle) + 1) :
          SubSeq(hay, i, i + Len(needle) - 1) = needle

\* Python hay.index(needle) as a 1-based offset; 0 when needle is absent.
StrIndex(hay, needle) ==
    IF ~StrIn(needle, hay) THEN 0
    ELSE IF Len(needle) = 0 THEN 1
    ELSE CHOOSE i \in 1..(Len(hay) - Len(needle) + 1) :
            /\ SubSeq(hay, i, i + Len(needle) - 1) = needle
            /\ \A j \in 1..(i - 1) : SubSeq(hay, j, j + Len(needle) - 1) # needle

\* Python item in list.
InList(x, list) == \E i \in 1..Len(list) : list[i] = x

RECURSIVE SplitFrom(_, _, _, _)
SplitFrom(s, i, cur, acc) ==
    IF i > Len(s)
    THEN IF cur = "" THEN acc ELSE Append(acc, cur)
    ELSE IF CharAt(s, i) = " "
         THEN SplitFrom(s, i + 1, "", IF cur = "" THEN acc ELSE Append(acc, cur))
         ELSE SplitFrom(s, i + 1, cur \o CharAt(s, i), acc)

\* Python s.split(): the maximal runs of non-blank characters.
Split(s) == SplitFrom(s, 1, "", <<>>)

RECURSIVE Join(_)
\* Python " ".join(list) for a list of strings.
Join(list) ==
    IF Len(list) = 0 THEN ""
    ELSE IF Len(list) = 1 THEN list[1]
    ELSE list[1] \o " " \o Join(Tail(list))

\* The list of the characters of a string (iterating a Python string).
Chars(s) == [i \in 1..Len(s) |-> CharAt(s, i)]

RECURSIVE SplitSep(_, _)
\* Python s.split(sep) for a non-empty separator.
SplitSep(s, sep) ==
    LET i == StrIndex(s, sep)
    IN  IF i = 0 THEN <<s>>
        ELSE <<SubSeq(s, 1, i - 1)>>
             \o SplitSep(SubSeq(s, i + Len(sep), Len(s)), sep)

RECURSIVE Replace(_, _, _)
\* Python s.replace(old, new) for a non-empty old.
Replace(s, old, new) ==
    LET i == StrIndex(s, old)
    IN  IF i = 0 THEN s
        ELSE SubSeq(s, 1, i - 1) \o new
             \o Replace(SubSeq(s, i + Len(old), Len(s)), old, new)

\* string.punctuation. The grave accent between _ and { cannot be written in a
\* TLA+ string and is left out; no token of the model holds _ or {.
punctuation == "!\"#$%&'()*+,-./:;<=>?@[\\]^_{|}~"

Letters == {"a", "b", "c", "d", "e", "f", "g", "h", "i", "j", "k", "l", "m",
            "n", "o", "p", "q", "r", "s", "t", "u", "v", "w", "x", "y", "z"}

DigitChars == <<"0", "1", "2", "3", "4", "5", "6", "7", "8", "9">>

\* str.isalpha
isalpha(s) == Len(s) > 0 /\ \A i \in 1..Len(s) : CharAt(s, i) \in Letters

IsDigit(c) == \E d \in 1..Len(DigitChars) : DigitChars[d] = c

\* str.isnumeric
isnumeric(s) == Len(s) > 0 /\ \A i \in 1..Len(s) : IsDigit(CharAt(s, i))

DigitVal(c) == (CHOOSE d \in 1..Len(DigitChars) : DigitChars[d] = c) - 1

RECURSIVE IntOf(_)
\* int(s) for a string of decimal digits.
IntOf(s) ==
    IF Len(s) = 0 THEN 0
    ELSE 10 * IntOf(SubSeq(s, 1, Len(s) - 1)) + DigitVal(CharAt(s, Len(s)))

(***************************************************************************)
(* Lists and dictionaries                                                  *)
(***************************************************************************)

\* Python list.insert(i, x) for a 0-based i <= len(list).
InsertAt(list, i, x) == SubSeq(list, 1, i) \o <<x>> \o SubSeq(list, i + 1, Len(list))

\* Python list.remove(x): the first occurrence of x is removed.
ListRemove(list, x) ==
    IF ~InList(x, list) THEN list
    ELSE LET i == CHOOSE j \in 1..Len(list) :
                     list[j] = x /\ \A h \in 1..(j - 1) : list[h] # x
         IN  SubSeq(list, 1, i - 1) \o SubSeq(list, i + 1, Len(list))

\* An insertion-ordered dictionary is a sequence of <<key, value>> pairs.
HasKey(d, k) == \E i \in 1..Len(d) : d[i][1] = k

KeyPos(d, k) == CHOOSE i \in 1..Len(d) : d[i][1] = k

Get(d, k) == d[KeyPos(d, k)][2]

Keys(d) == [i \in 1..Len(d) |-> d[i][1]]

\* del d[k] / d.pop(k) for a key that is present.
DelKey(d, k) ==
    LET i == KeyPos(d, k) IN SubSeq(d, 1, i - 1) \o SubSeq(d, i + 1, Len(d))

\* d[k] = x: an existing key keeps its place, a new key goes last.
SetKey(d, k, x) ==
    IF HasKey(d, k) THEN [d EXCEPT ![KeyPos(d, k)] = <<k, x>>]
    ELSE Append(d, <<k, x>>)

\* defaultdict(list): d[k].append(x) on an insertion-ordered dictionary.
ListAppend(d, k, x) ==
    IF HasKey(d, k) THEN [d EXCEPT ![KeyPos(d, k)] = <<k, Append(@[2], x)>>]
    ELSE Append(d, <<k, <<x>>>>)

\* defaultdict(list): d[k].append(x) on a dictionary held as a function.
AddObs(d, k, x) ==
    IF k \in DOMAIN d THEN [d EXCEPT ![k] = Append(@, x)]
    ELSE d @@ (k :> <<x>>)

\* The empty dictionary held as a function.
EmptyDict == [k \in {} |-> <<>>]

\* A variant of Merge in which the value a already holds for a key stays.
MergeKeepingOld(a, b) ==
    [k \in DOMAIN a \cup DOMAIN b |-> IF k \in DOMAIN a THEN a[k] ELSE b[k]]

\* {**a, **b}: the entries of b override those of a.
Merge(a, b) == [k \in DOMAIN a \cup DOMAIN b |-> IF k \in DOMAIN b THEN b[k] ELSE a[k]]

Abs(x) == IF x < 0 THEN -x ELSE x

(***************************************************************************)
(* processing_filtering.py: token-level normalisation                      *)
(***************************************************************************)

remove_punct_phrases(tokens) ==
    IF Len(tokens) > 1
    THEN LET a == IF StrIn(tokens[1], punctuation) THEN Tail(tokens) ELSE tokens
             b == IF StrIn(tokens[Len(tokens)], punctuation)
                  THEN SubSeq(a, 1, Len(a) - 1) ELSE a
         IN  IF Len(b) > 0 /\ (b[1] = "..." \/ b[Len(b)] = "...")
             THEN ListRemove(b, "...")
             ELSE b
    ELSE tokens

\* phrase is a list of tokens; the result is the joined string.
remove_contractions(phrase, lang) ==
    LET n == Len(phrase)
        fr1 == IF lang = "french" /\ phrase[n] \in {"d'", "du", "des"}
               THEN [phrase EXCEPT ![n] = "de"] ELSE phrase
        fr2 == IF lang = "french" /\ fr1[n] \in {"aux", "au"}
               THEN [fr1 EXCEPT ![n] = "a"] ELSE fr1
        de1 == IF lang = "german" /\ fr2[n] \in {"zur", "zum"}
               THEN [fr2 EXCEPT ![n] = "zu"] ELSE fr2
        de2 == IF lang = "german" /\ de1[n] \in {"vom"}
               THEN [de1 EXCEPT ![n] = "von"] ELSE de1
    IN  Join(de2)

(***************************************************************************)
(* parse_all_alignments.py: parse_alignments                               *)
(* A corpus is a sequence of lines [index, de, fr]: the alignment line and *)
(* the German and the French sentence.                                     *)
(***************************************************************************)

\* pair = [[a.split("-")[0], a.split("-")[1]] for a in alignment]
AlignmentParts(index) ==
    LET alignment == Split(index)
    IN  [i \in 1..Len(alignment) |-> SplitSep(alignment[i], "-")]

\* a.split("-")[1] raises IndexError for a token without "-".
PairError(index) ==
    \E i \in 1..Len(AlignmentParts(index)) : Len(AlignmentParts(index)[i]) < 2

IndexPairs(index) ==
    LET parts == AlignmentParts(index)
    IN  [i \in 1..Len(parts) |-> <<parts[i][1], parts[i][2]>>]

\* The positions left in de_missing / fr_missing: list.remove(int(word)) is
\* tried for every pair and a ValueError (of int or of remove) is passed over.
Missing(pair, side, sentence) ==
    LET aligned(m) == \E i \in 1..Len(pair) :
                         isnumeric(pair[i][side]) /\ IntOf(pair[i][side]) = m
        RECURSIVE From(_)
        From(m) == IF m >= Len(sentence) THEN <<>>
                   ELSE (IF aligned(m) THEN <<>> ELSE <<m>>) \o From(m + 1)
    IN  From(0)

RECURSIVE GroupFrom(_, _, _, _, _)
GroupFrom(items, ki, vi, i, acc) ==
    IF i > Len(items) THEN acc
    ELSE GroupFrom(items, ki, vi, i + 1, ListAppend(acc, items[i][ki], items[i][vi]))

\* for p in items: d[p[ki]].append(p[vi]), d a defaultdict(list)
GroupBy(items, ki, vi) == GroupFrom(items, ki, vi, 1, <<>>)

RECURSIVE GapDe(_, _, _)
\* Lines 90-95, for one value list v: pos runs over range(n - 1), n the length
\* of v when the loop starts, while the insertions lengthen v.
GapDe(v, pos, n) ==
    IF pos > n - 2 THEN v
    ELSE IF /\ isnumeric(v[pos + 1]) /\ isnumeric(v[pos + 2])
            /\ Abs(IntOf(v[pos + 1]) - IntOf(v[pos + 2])) > 1
         THEN GapDe(InsertAt(v, pos + 1, "..."), pos + 1, n)
         ELSE GapDe(v, pos + 1, n)

RECURSIVE GapFr(_, _, _, _)
\* Lines 98-108, for one value list v; [err, v], err for the IndexError of
\* german[int(v[pos])+1].
GapFr(v, pos, n, german) ==
    IF pos > n - 2 THEN [err |-> FALSE, v |-> v]
    ELSE IF isnumeric(v[pos + 1]) /\ isnumeric(v[pos + 2])
         THEN LET dist == Abs(IntOf(v[pos + 1]) - IntOf(v[pos + 2]))
              IN  IF dist = 2
                  THEN IF IntOf(v[pos + 1]) + 1 >= Len(german)
                       THEN [err |-> TRUE, v |-> v]
                       ELSE IF german[IntOf(v[pos + 1]) + 2] = ","
                            THEN GapFr(InsertAt(v, pos + 1, ","), pos + 1, n, german)
                            ELSE GapFr(InsertAt(v, pos + 1, "..."), pos + 1, n, german)
                  ELSE IF dist > 2
                       THEN GapFr(InsertAt(v, pos + 1, "..."), pos + 1, n, german)
                       ELSE GapFr(v, pos + 1, n, german)
         ELSE GapFr(v, pos + 1, n, german)

\* if len(v) > 1: the discontinuous-phrase loop of one entry.
MarkDe(v) == IF Len(v) > 1 THEN GapDe(v, 0, Len(v)) ELSE v

MarkFr(v, german) ==
    IF Len(v) > 1 THEN GapFr(v, 0, Len(v), german) ELSE [err |-> FALSE, v |-> v]

\* sentence[int(i)] raises IndexError for a position past the sentence.
ResolveError(list, sentence) ==
    \E i \in 1..Len(list) : isnumeric(list[i]) /\ IntOf(list[i]) >= Len(sentence)

\* [sentence[int(i)] if i.isnumeric() else i for i in list]
Resolve(list, sentence) ==
    [i \in 1..Len(list) |->
        IF isnumeric(list[i]) THEN sentence[IntOf(list[i]) + 1] ELSE list[i]]

\* A variant of TargetText that joins every value a second time, character by
\* character, as lines 117-119 do for a value ending in a contraction.
TargetTextRejoined(v, contractions, lang) ==
    Join(Chars(Join(remove_punct_phrases(v))))

\* Lines 114-119 / 124-129: the value appended for one entry. A value ending in
\* a contraction is joined by remove_contractions and the joined string is
\* then joined again, character by character.
TargetText(v, contractions, lang) ==
    LET w == remove_punct_phrases(v)
    IN  IF Len(w) > 0 /\ w[Len(w)] \in contractions
        THEN Join(Chars(remove_contractions(w, lang)))
        ELSE Join(w)

RECURSIVE MissingFrom(_, _, _, _)
\* for m in missing: d[sentence[m]].append("")
MissingFrom(d, missing, sentence, i) ==
    IF i > Len(missing) THEN d
    ELSE MissingFrom(AddObs(d, sentence[missing[i] + 1], ""), missing, sentence, i + 1)

RECURSIVE EmitFrom(_, _, _, _, _, _, _)
\* Lines 111-119 / 121-129 over the entries of one phrase-candidate map.
EmitFrom(d, items, src, tgt, contractions, lang, i) ==
    IF i > Len(items) THEN d
    ELSE LET k == remove_punct_phrases(Resolve(items[i][1], src))
             v == TargetText(Resolve(items[i][2], tgt), contractions, lang)
         IN  EmitFrom(AddObs(d, Join(k), v), items, src, tgt, contractions, lang, i + 1)

\* One iteration of the loop of line 43 on the maps built so far.
ParseLine(acc, line) ==
    IF acc.err \/ PairError(line.index) THEN [acc EXCEPT !.err = TRUE]
    ELSE
    LET german == Split(line.de)
        french == Split(line.fr)
        pair == IndexPairs(line.index)
        de_fr0 == MissingFrom(acc.de_fr, Missing(pair, 1, german), german, 1)
        fr_de0 == MissingFrom(acc.fr_de, Missing(pair, 2, french), french, 1)
        phrase_align_fr_r == GroupBy(pair, 2, 1)
        phrase_align_de_r == GroupBy(pair, 1, 2)
        phrase_align_de0 == GroupBy(phrase_align_fr_r, 2, 1)
        phrase_align_fr0 == GroupBy(phrase_align_de_r, 2, 1)
        phrase_align_de == [i \in 1..Len(phrase_align_de0) |->
                              <<phrase_align_de0[i][1], MarkDe(phrase_align_de0[i][2])>>]
        marked == [i \in 1..Len(phrase_align_fr0) |->
                              MarkFr(phrase_align_fr0[i][2], german)]
        phrase_align_fr == [i \in 1..Len(phrase_align_fr0) |->
                              <<phrase_align_fr0[i][1], marked[i].v>>]
        bad == \/ \E i \in 1..Len(marked) : marked[i].err
               \/ \E i \in 1..Len(phrase_align_de) :
                     \/ ResolveError(phrase_align_de[i][1], german)
                     \/ ResolveError(phrase_align_de[i][2], french)
               \/ \E i \in 1..Len(phrase_align_fr) :
                     \/ ResolveError(phrase_align_fr[i][1], french)
                     \/ ResolveError(phrase_align_fr[i][2], german)
    IN  IF bad THEN [acc EXCEPT !.err = TRUE]
        ELSE [err |-> FALSE,
              de_fr |-> EmitFrom(de_fr0, phrase_align_de, german, french,
                                 {"d'", "du", "des", "aux", "au"}, "french", 1),
              fr_de |-> EmitFrom(fr_de0, phrase_align_fr, french, german,
                                 {"zur", "zum", "vom"}, "german", 1)]

RECURSIVE ParseFrom(_, _, _)
ParseFrom(acc, corpus, i) ==
    IF i > Len(corpus) THEN acc
    ELSE ParseFrom(ParseLine(acc, corpus[i]), corpus, i + 1)

\* [err, de_fr, fr_de]: err when the function ends in an exception, else the
\* two dictionaries it returns.
parse_alignments(corpus) ==
    ParseFrom([err |-> FALSE, de_fr |-> EmptyDict, fr_de |-> EmptyDict], corpus, 1)

(***************************************************************************)
(* parse_all_alignments.py: parse_phrase_alignments, parse_discontinuous   *)
(* The alignment lines of a corpus given to the two scans hold only        *)
(* "<digits>-<digits>" tokens, so that int() raises nothing.               *)
(***************************************************************************)

RECURSIVE IntToStr(_)
\* The decimal string of a natural number: a position kept in a list that
\* also holds "..." and ",".
IntToStr(n) ==
    IF n < 10 THEN DigitChars[n + 1]
    ELSE IntToStr(n \div 10) \o DigitChars[(n % 10) + 1]

\* pair = [[int(a.split("-")[0]), int(a.split("-")[1])] for a in alignment]
IntPairs(index) ==
    LET parts == AlignmentParts(index)
    IN  [i \in 1..Len(parts) |-> <<IntOf(parts[i][1]), IntOf(parts[i][2])>>]

\* int(s) raises ValueError for a string that is not a decimal number; the
\* position parts of the model are made of letters and digits.
IntError(s) == ~isnumeric(s)

\* The comprehension of lines 174-175 (297-298) raises for a token without "-"
\* (IndexError) and for a position part int() rejects (ValueError); nothing
\* catches either, so the scan of the corpus ends in the exception.
ScanError(corpus) ==
    \E i \in 1..Len(corpus) :
        \/ PairError(corpus[i].index)
        \/ \E j \in 1..Len(AlignmentParts(corpus[i].index)) :
              \/ IntError(AlignmentParts(corpus[i].index)[j][1])
              \/ IntError(AlignmentParts(corpus[i].index)[j][2])

\* The source side of a pair is its element 1 for lang = 1, 2 for lang = 2.
\* [i2 for i1, i2 in pair if i1 == word_pos] (or the mirror image).
RECURSIVE AlignedFrom(_, _, _, _)
AlignedFrom(pair, lang, word_pos, i) ==
    IF i > Len(pair) THEN <<>>
    ELSE (IF pair[i][lang] = word_pos THEN <<pair[i][3 - lang]>> ELSE <<>>)
         \o AlignedFrom(pair, lang, word_pos, i + 1)

RECURSIVE TargetsOf(_, _, _, _)
\* new_phrase += alignment_index for every word_pos of pos_range
TargetsOf(pair, lang, pos_range, i) ==
    IF i > Len(pos_range) THEN <<>>
    ELSE AlignedFrom(pair, lang, pos_range[i], 1) \o TargetsOf(pair, lang, pos_range, i + 1)

RECURSIVE Ascending(_)
\* The elements of a finite set of numbers in ascending order.
Ascending(S) ==
    IF S = {} THEN <<>>
    ELSE LET m == CHOOSE x \in S : \A y \in S : x <= y
         IN  <<m>> \o Ascending(S \ {m})

\* pd.unique(new_phrase).tolist(), then new_phrase.sort() when it holds more
\* than one position: the distinct positions in ascending order, as strings.
UniqueSorted(list) ==
    LET asc == Ascending({list[i] : i \in 1..Len(list)})
    IN  [i \in 1..Len(asc) |-> IntToStr(asc[i])]

RECURSIVE GapScan(_, _, _)
\* The while loop of lines 215-229 and of lines 346-360 (whose second test,
\* > 1, is reached only for a distance other than 2): pos is compared with the
\* current length of the list.
GapScan(new_phrase, pos, target_tok) ==
    IF pos >= Len(new_phrase) - 1 THEN new_phrase
    ELSE IF isnumeric(new_phrase[pos + 1]) /\ isnumeric(new_phrase[pos + 2])
         THEN LET dist == Abs(IntOf(new_phrase[pos + 1]) - IntOf(new_phrase[pos + 2]))
              IN  IF dist = 2
                  THEN IF target_tok[IntOf(new_phrase[pos + 1]) + 2] = ","
                       THEN GapScan(InsertAt(new_phrase, pos + 1, ","), pos + 1, target_tok)
                       ELSE GapScan(InsertAt(new_phrase, pos + 1, "..."), pos + 1, target_tok)
                  ELSE IF dist > 2
                       THEN GapScan(InsertAt(new_phrase, pos + 1, "..."), pos + 1, target_tok)
                       ELSE GapScan(new_phrase, pos + 1, target_tok)
         ELSE GapScan(new_phrase, pos + 1, target_tok)

\* Lines 210-247 / 342-378: the observation made from the target positions.
ScanText(positions, target_tok, lang) ==
    LET uniq == UniqueSorted(positions)
        gapped == IF Len(uniq) > 1 THEN GapScan(uniq, 0, target_tok) ELSE uniq
        words == remove_punct_phrases(Resolve(gapped, target_tok))
        text == IF Len(words) > 0
                   /\ words[Len(words)] \in {"d'", "du", "des", "aux", "au",
                                             "zur", "zum", "vom"}
                THEN remove_contractions(words, IF lang = 1 THEN "french" ELSE "german")
                ELSE Join(words)
    IN  IF StrIn(", ...", text) THEN Replace(text, ", ...", "...") ELSE text

\* The 0-based positions pos with source_tok[pos:pos+len(part)] == part.
Matches(source_tok, part) ==
    {pos \in 0..(Len(source_tok) - Len(part)) :
        SubSeq(source_tok, pos + 1, pos + Len(part)) = part}

\* list(range(pos, pos + n))
Range(pos, n) == [i \in 1..n |-> pos + i - 1]

RECURSIVE PhraseOccurrences(_, _, _, _, _, _, _)
\* for pos_range in phrase_index: one observation per occurrence of the phrase
PhraseOccurrences(d, phrase_, starts, pair, target_tok, lang, i) ==
    IF i > Len(starts) THEN d
    ELSE LET pos_range == Range(starts[i], Len(Split(phrase_)))
             text == ScanText(TargetsOf(pair, lang, pos_range, 1), target_tok, lang)
         IN  PhraseOccurrences(AddObs(d, phrase_, text), phrase_, starts, pair,
                               target_tok, lang, i + 1)

RECURSIVE PhrasesInLine(_, _, _, _, _)
\* for phrase_ in phrases: if phrase_ in sentence: ...
PhrasesInLine(d, line, phrases, lang, i) ==
    IF i > Len(phrases) THEN d
    ELSE LET sentence == IF lang = 1 THEN line.de ELSE line.fr
             source_tok == Split(sentence)
             target_tok == IF lang = 1 THEN Split(line.fr) ELSE Split(line.de)
             found == IF StrIn(phrases[i], sentence)
                      THEN PhraseOccurrences(d, phrases[i],
                              Ascending(Matches(source_tok, Split(phrases[i]))),
                              IntPairs(line.index), target_tok, lang, 1)
                      ELSE d
         IN  PhrasesInLine(found, line, phrases, lang, i + 1)

RECURSIVE PhraseScanFrom(_, _, _, _, _)
PhraseScanFrom(d, corpus, phrases, lang, i) ==
    IF i > Len(corpus) THEN d
    ELSE PhraseScanFrom(PhrasesInLine(d, corpus[i], phrases, lang, 1),
                        corpus, phrases, lang, i + 1)

parse_phrase_alignments(corpus, phrases, lang) ==
    PhraseScanFrom(EmptyDict, corpus, phrases, lang, 1)

RECURSIVE PartRanges(_, _, _, _)
\* Lines 319-327: for every part of the phrase, the first occurrence in
\* source_tok whose range is not yet in phrase_index.
PartRanges(phrase_index, parts, source_tok, i) ==
    IF i > Len(parts) THEN phrase_index
    ELSE LET part == Split(parts[i])
             fresh == {pos \in Matches(source_tok, part) :
                          ~InList(Range(pos, Len(part)), phrase_index)}
             next == IF fresh = {} THEN phrase_index
                     ELSE Append(phrase_index,
                                 Range(CHOOSE pos \in fresh : \A q \in fresh : pos <= q,
                                       Len(part)))
         IN  PartRanges(next, parts, source_tok, i + 1)

RECURSIVE Flatten(_)
Flatten(lists) == IF Len(lists) = 0 THEN <<>> ELSE lists[1] \o Flatten(Tail(lists))

RECURSIVE DiscontinuousInLine(_, _, _, _, _)
\* for phrase_ in phrases: both parts in the sentence, the first before the second
DiscontinuousInLine(d, line, phrases, lang, i) ==
    IF i > Len(phrases) THEN d
    ELSE LET sentence == IF lang = 1 THEN line.de ELSE line.fr
             source_tok == Split(sentence)
             target_tok == IF lang = 1 THEN Split(line.fr) ELSE Split(line.de)
             phrase == SplitSep(phrases[i], " ... ")
             hit == /\ StrIn(phrase[1], sentence)
                    /\ StrIn(phrase[2], sentence)
                    /\ StrIndex(sentence, phrase[1]) < StrIndex(sentence, phrase[2])
             phrase_index == PartRanges(<<>>, phrase, source_tok, 1)
             text == ScanText(TargetsOf(IntPairs(line.index), lang,
                                        Flatten(phrase_index), 1),
                              target_tok, lang)
         IN  DiscontinuousInLine(IF hit THEN AddObs(d, phrases[i], text) ELSE d,
                                 line, phrases, lang, i + 1)

RECURSIVE DiscontinuousScanFrom(_, _, _, _, _)
DiscontinuousScanFrom(d, corpus, phrases, lang, i) ==
    IF i > Len(corpus) THEN d
    ELSE DiscontinuousScanFrom(DiscontinuousInLine(d, corpus[i], phrases, lang, 1),
                               corpus, phrases, lang, i + 1)

parse_discontinuous(corpus, phrases, lang) ==
    DiscontinuousScanFrom(EmptyDict, corpus, phrases, lang, 1)

(***************************************************************************)
(* processing_filtering.py: counting and probabilities                     *)
(* A probability is the exact fraction count / total in lowest terms, a    *)
(* record [n, d].                                                          *)
(***************************************************************************)

RECURSIVE GCD(_, _)
GCD(a, b) == IF b = 0 THEN a ELSE GCD(b, a % b)

\* n / d for d > 0
Frac(n, d) == [n |-> n \div GCD(n, d), d |-> d \div GCD(n, d)]

FracLess(p, q) == p.n * q.d < q.n * p.d

FracAdd(p, q) == Frac(p.n * q.d + q.n * p.d, p.d * q.d)

\* p / q for q > 0
FracDiv(p, q) == Frac(p.n * q.d, p.d * q.n)

RECURSIVE CounterFrom(_, _, _)
CounterFrom(list, i, acc) ==
    IF i > Len(list) THEN acc
    ELSE CounterFrom(list, i + 1,
                     IF HasKey(acc, list[i])
                     THEN SetKey(acc, list[i], Get(acc, list[i]) + 1)
                     ELSE Append(acc, <<list[i], 1>>))

\* collections.Counter(list): the elements in first-seen order, each with the
\* number of its occurrences.
Counter(list) == CounterFrom(list, 1, <<>>)

\* counter[key]: 0 for a key the Counter does not hold.
CountOf(counter, key) == IF HasKey(counter, key) THEN Get(counter, key) ELSE 0

RECURSIVE SumValues(_, _)
\* sum(v.values()) for a Counter
SumValues(counter, i) ==
    IF i > Len(counter) THEN 0 ELSE counter[i][2] + SumValues(counter, i + 1)

\* The set of the elements of a list.
ToSet(list) == {list[i] : i \in 1..Len(list)}

\* alignments is a defaultdict(list) in every call of find_conns: the lookup
\* alignments[key] raises no KeyError and gives [] for a key it does not hold.
conn_count(alignments, lex) ==
    [key \in ToSet(lex) |->
        Counter(IF key \in DOMAIN alignments THEN alignments[key] ELSE <<>>)]

\* A key with no observation gets no entry in no_punct.
remove_punct_values(dictionary) ==
    [source \in {k \in DOMAIN dictionary : Len(dictionary[k]) > 0} |->
        [i \in 1..Len(dictionary[source]) |->
            LET word == dictionary[source][i]
            IN  IF word # "" /\ StrIn(word, punctuation) THEN "" ELSE word]]

\* A variant of Probabilities that divides by one more than the number of
\* observations.
ProbabilitiesOverCount(v) ==
    [i \in 1..Len(v) |-> <<v[i][1], Frac(v[i][2], SumValues(v, 1) + 1)>>]

\* exp[word] = count / sum(v.values())
Probabilities(v) ==
    [i \in 1..Len(v) |-> <<v[i][1], Frac(v[i][2], SumValues(v, 1))>>]

alignment_probabilities(alignments) ==
    [key \in DOMAIN alignments |-> Probabilities(Counter(alignments[key]))]

(***************************************************************************)
(* processing_filtering.py: the filter chain                               *)
(* A table maps each source key to its targets, an insertion-ordered       *)
(* dictionary from target to probability.                                  *)
(***************************************************************************)

RECURSIVE SelectPairs(_, _, _)
SelectPairs(d, kept, i) ==
    IF i > Len(d) THEN <<>>
    ELSE (IF i \in kept THEN <<d[i]>> ELSE <<>>) \o SelectPairs(d, kept, i + 1)

\* The entries of d at the positions kept, in the order of d.
Select(d, kept) == SelectPairs(d, kept, 1)

\* [x for x in list if ...]: the members of list at the positions kept.
RECURSIVE SelectList(_, _, _)
SelectList(list, kept, i) ==
    IF i > Len(list) THEN <<>>
    ELSE (IF i \in kept THEN <<list[i]>> ELSE <<>>) \o SelectList(list, kept, i + 1)

\* A variant of filter_most_common_conns that also removes a target whose
\* probability equals the threshold.
FilterAtOrBelow(dictionary, word_threshold, phrase_threshold) ==
    [source \in DOMAIN dictionary |->
        LET Keep(conn, count) ==
               /\ ~(Len(Split(conn)) = 1 /\ ~FracLess(word_threshold, count))
               /\ ~(Len(Split(conn)) > 1 /\ ~FracLess(phrase_threshold, count))
        IN  Select(dictionary[source],
                   {at \in 1..Len(dictionary[source]) :
                       Keep(dictionary[source][at][1], dictionary[source][at][2])})]

filter_most_common_conns(dictionary, word_threshold, phrase_threshold) ==
    [source \in DOMAIN dictionary |->
        LET Keep(conn, count) ==
               /\ ~(Len(Split(conn)) = 1 /\ FracLess(count, word_threshold))
               /\ ~(Len(Split(conn)) > 1 /\ FracLess(count, phrase_threshold))
        IN  Select(dictionary[source],
                   {at \in 1..Len(dictionary[source]) :
                       Keep(dictionary[source][at][1], dictionary[source][at][2])})]

\* A variant of remove_low_counts that holds every target, the empty string
\* included, to the minimum count of single words.
RemoveLowWordCounts(prob_dict, count_dict, word_count, phrase_count) ==
    [source \in DOMAIN prob_dict |->
        LET Keep(target, probability) ==
               ~(CountOf(count_dict[source], target) < word_count)
        IN  Select(prob_dict[source],
                   {at \in 1..Len(prob_dict[source]) :
                       Keep(prob_dict[source][at][1], prob_dict[source][at][2])})]

\* count_dict holds every source of prob_dict in find_conns, where the keys of
\* both come from the same lexicon.
remove_low_counts(prob_dict, count_dict, word_count, phrase_count) ==
    [source \in DOMAIN prob_dict |->
        LET Keep(target, probability) ==
               IF Len(Split(target)) = 1
               THEN ~(CountOf(count_dict[source], target) < word_count)
               ELSE ~(CountOf(count_dict[source], target) < phrase_count)
        IN  Select(prob_dict[source],
                   {at \in 1..Len(prob_dict[source]) :
                       Keep(prob_dict[source][at][1], prob_dict[source][at][2])})]

\* count_dict[source] of lines 125 / 128 raises KeyError for a source that
\* has a target in prob_dict and no entry in count_dict; the inner lookup is
\* one in a Counter and raises nothing.
LowCountsError(prob_dict, count_dict) ==
    \E source \in DOMAIN prob_dict :
        Len(prob_dict[source]) > 0 /\ source \notin DOMAIN count_dict

\* del_words of filter_unlikely_alignments
UnlikelyWords(lang) ==
    IF lang = "french"
    THEN {"ich", "du", "er", "sie", "es", "wir", "ihr", "das", "des", "die",
          "der", "einer", "eines", "eine", "ist", "dem", "sich", "unseres", "ein"}
    ELSE {"l'", "ce"}

\* 0.18
ShortLimit == [n |-> 9, d |-> 50]

\* The ratio limit of line 186.
RatioLimit == 3

Last(list) == list[Len(list)]

RECURSIVE DropFinalStop(_, _, _, _)
\* Lines 163-166: [targets, filtered_phrases] after the loop over phrases.
DropFinalStop(st, phrases, del_words, i) ==
    IF i > Len(phrases) THEN st
    ELSE IF Last(Split(phrases[i])) \in del_words
         THEN DropFinalStop([t |-> DelKey(st.t, phrases[i]),
                             f |-> ListRemove(st.f, phrases[i])],
                            phrases, del_words, i + 1)
         ELSE DropFinalStop(st, phrases, del_words, i + 1)

\* A variant of DropFragments that keeps every single word.
KeepFragments(t, single, filtered_phrases, j) == t

RECURSIVE DropFragments(_, _, _, _)
\* Lines 171-174 for one single word: the loop over filtered_phrases.
DropFragments(t, single, filtered_phrases, j) ==
    IF j > Len(filtered_phrases) THEN t
    ELSE IF /\ InList(single, Split(filtered_phrases[j]))
            /\ HasKey(t, single)
            /\ FracLess(Get(t, single), ShortLimit)
         THEN DropFragments(DelKey(t, single), single, filtered_phrases, j + 1)
         ELSE DropFragments(t, single, filtered_phrases, j + 1)

RECURSIVE DropSingles(_, _, _, _, _)
\* Lines 168-174: the loop over singles.
DropSingles(t, singles, filtered_phrases, del_words, i) ==
    IF i > Len(singles) THEN t
    ELSE LET t1 == IF singles[i] \in del_words /\ HasKey(t, singles[i])
                   THEN DelKey(t, singles[i]) ELSE t
         IN  DropSingles(DropFragments(t1, singles[i], filtered_phrases, 1),
                         singles, filtered_phrases, del_words, i + 1)

RECURSIVE DropShort(_, _, _, _)
\* Lines 177-188: the two nested loops over filtered_phr, a copy of
\* filtered_phrases taken before them; st is [targets, filtered_phrases].
DropShort(st, filtered_phr, i, j) ==
    IF i > Len(filtered_phr) THEN st
    ELSE IF j > Len(filtered_phr) THEN DropShort(st, filtered_phr, i + 1, 1)
    ELSE LET in_phrase == filtered_phr[i]
             out_phrase == filtered_phr[j]
             hit == /\ in_phrase # out_phrase
                    /\ InList(out_phrase, st.f)
                    /\ StrIn(in_phrase, out_phrase)
                    /\ Len(Split(in_phrase)) # Len(Split(out_phrase))
                    /\ HasKey(st.t, in_phrase)
                    /\ FracLess(Get(st.t, in_phrase), ShortLimit)
                    /\ FracLess(FracDiv(Get(st.t, in_phrase), Get(st.t, out_phrase)),
                                Frac(RatioLimit, 1))
         IN  IF hit
             THEN DropShort([t |-> DelKey(st.t, in_phrase),
                             f |-> ListRemove(st.f, in_phrase)],
                            filtered_phr, i, j + 1)
             ELSE DropShort(st, filtered_phr, i, j + 1)

\* The body of the loop of line 157 for the targets of one source.
UnlikelyTargets(targets, del_words) ==
    LET IsSingle(x) == Len(Split(x)) = 1
        IsPhrase(x) == Len(Split(x)) > 1
        singles == SelectList(Keys(targets),
                              {at \in 1..Len(targets) : IsSingle(targets[at][1])}, 1)
        phrases == SelectList(Keys(targets),
                              {at \in 1..Len(targets) : IsPhrase(targets[at][1])}, 1)
        st1 == DropFinalStop([t |-> targets, f |-> phrases], phrases, del_words, 1)
        t2 == DropSingles(st1.t, singles, st1.f, del_words, 1)
    IN  DropShort([t |-> t2, f |-> st1.f], st1.f, 1, 1).t

filter_unlikely_alignments(alignments, lang) ==
    [source \in DOMAIN alignments |->
        UnlikelyTargets(alignments[source], UnlikelyWords(lang))]

\* The test of lines 218-223 and of lines 535-540: the complete phrase other
\* supersedes the gapped target.
Completes(target, other) ==
    LET target_tokens == Split(target)
        target_complete == Split(other)
        clean_target == ListRemove(target_tokens, "...")
    IN  /\ Len(target_complete) >= 3
        /\ ~StrIn("...", other)
        /\ target_tokens[1] = target_complete[1]
        /\ Last(target_tokens) = Last(target_complete)
        /\ \A i \in 1..Len(target_complete) : isalpha(target_complete[i])
        /\ clean_target # target_complete

\* if len(target_tokens) >= 3 and "..." in target
Gapped(target) == Len(Split(target)) >= 3 /\ StrIn("...", target)

remove_incomplete_phrases(alignments) ==
    [source \in DOMAIN alignments |->
        LET targets == alignments[source]
            Keep(target, probability) ==
               ~(/\ Gapped(target)
                 /\ \E i \in 1..Len(targets) : Completes(target, targets[i][1]))
        IN  Select(targets,
                   {at \in 1..Len(targets) :
                       Keep(targets[at][1], targets[at][2])})]

\* del_words of filter_single_words
SingleStopWords(lang) ==
    IF lang = "french"
    THEN {"dass", "wenn", "auf", "vor", "in", "mit"}
    ELSE {"avec", "dans", "devant", "par", "bien", "de", "quoi", "meme", "tout",
          "que", "qu'", "en", "est", "ce", "sous", "qui", "s'", "si", "lors",
          "pendant", "durant"}

filter_single_words(alignments, lang) ==
    [source \in DOMAIN alignments |->
        LET Keep(single, probability) ==
               ~(Len(Split(single)) = 1 /\ single \in SingleStopWords(lang))
        IN  Select(alignments[source],
                   {at \in 1..Len(alignments[source]) :
                       Keep(alignments[source][at][1], alignments[source][at][2])})]

\* pronouns of remove_pronouns
Pronouns(lang) ==
    IF lang = "german"
    THEN {"ich", "du", "er", "sie", "es", "wir", "ihr"}
    ELSE {"j'", "je", "tu", "il", "elle", "on", "nous", "vous", "ils", "elles"}

remove_pronouns(alignments, lang) ==
    [source \in DOMAIN alignments |->
        LET Keep(target, probability) == ToSet(Split(target)) \cap Pronouns(lang) = {}
        IN  Select(alignments[source],
                   {at \in 1..Len(alignments[source]) :
                       Keep(alignments[source][at][1], alignments[source][at][2])})]

RECURSIVE CompleteWith(_, _, _, _)
\* Lines 531-545 for one gapped target: the loop over lex. The first entry
\* that completes the target takes its probability; for a later one the pop
\* raises the KeyError that is passed over.
CompleteWith(filtered, target, lex, j) ==
    IF j > Len(lex) \/ ~HasKey(filtered, target) THEN filtered
    ELSE IF Completes(target, lex[j])
         THEN CompleteWith(SetKey(DelKey(filtered, target), lex[j], Get(filtered, target)),
                           target, lex, j + 1)
         ELSE CompleteWith(filtered, target, lex, j + 1)

RECURSIVE CompleteTargets(_, _, _, _)
\* Lines 528-545: the loop over the targets of one source of the input, on the
\* copy filtered.
CompleteTargets(filtered, targets, lex, i) ==
    IF i > Len(targets) THEN filtered
    ELSE CompleteTargets(IF Gapped(targets[i][1])
                         THEN CompleteWith(filtered, targets[i][1], lex, 1)
                         ELSE filtered,
                         targets, lex, i + 1)

complete_phrases(alignments, lex) ==
    [source \in DOMAIN alignments |->
        CompleteTargets(alignments[source], alignments[source], lex, 1)]

(***************************************************************************)
(* conn_search.py: FindAlignments                                          *)
(***************************************************************************)

\* fr_del and de_del: the connectives deleted from the lexicon of a round.
Deleted(lang) ==
    IF lang = "french"
    THEN {"dire que", "dire qu'", "et dire que", "et dire qu'", "encore que",
          "cependant que", "cependant qu'", "encore qu'", "si", "s'",
          "en meme temps que", "en meme temps qu'"}
    ELSE {"bloss", "dabei", "mangels", "mithin", "obschon", "wenn ... auch",
          "wiederum", "wobei", "wohingegen", "als ob"}

\* A variant of OtherLang that keeps the language of the round.
SameLang(lang) == lang

\* Lines 213-219: lang = "german" after a French round, "french" otherwise.
OtherLang(lang) == IF lang = "french" THEN "german" ELSE "french"

\* lang_pos: the corpus scans take German as language 1, French as language 2.
LangPos(lang) == IF lang = "french" THEN 2 ELSE 1

\* Lines 125-132 / 141-147: the lexicon a round works on. own_lex is the
\* lexicon of the round's language, taken when the argument lex is empty.
Seed(lex, lang, own_lex) ==
    LET given == IF Len(lex) = 0 THEN own_lex ELSE lex
        Kept(conn) == conn \notin Deleted(lang)
    IN  SelectList(given, {at \in 1..Len(given) : Kept(given[at])}, 1)

\* Lines 156-159
SingleWords(lex) ==
    SelectList(lex, {at \in 1..Len(lex) : Len(Split(lex[at])) = 1}, 1)

Phrases(lex) ==
    LET P(phrase) == Len(Split(phrase)) > 1 /\ ~StrIn("...", phrase)
    IN  SelectList(lex, {at \in 1..Len(lex) : P(lex[at])}, 1)

Discontinuous(lex) ==
    SelectList(lex, {at \in 1..Len(lex) : StrIn("...", lex[at])}, 1)

\* Lines 161-165: the cache entries of the single words; a word the cache does
\* not hold is passed over.
Lookup(alignments, single_words) ==
    [key \in ToSet(single_words) \cap DOMAIN alignments |-> alignments[key]]

\* conn_count(new_alignments, lex) looks every key of lex up in the
\* defaultdict new_alignments, which gives each key it did not hold the value [].
Touched(new_alignments, lex) ==
    [key \in DOMAIN new_alignments \cup ToSet(lex) |->
        IF key \in DOMAIN new_alignments THEN new_alignments[key] ELSE <<>>]

\* A variant of FilterChain that calls filter_unlikely_alignments before
\* remove_low_counts.
FilterChainSwapped(probs, count_dict, a, lang, complete_lex) ==
    LET t1 == filter_most_common_conns(probs, a.word_threshold, a.phrase_threshold)
        t2 == filter_unlikely_alignments(t1, lang)
        t3 == remove_low_counts(t2, count_dict, a.word_min_count, a.phrase_min_count)
        t4 == remove_incomplete_phrases(t3)
        t5 == filter_single_words(t4, lang)
        t6 == remove_pronouns(t5, OtherLang(lang))
    IN  complete_phrases(t6, complete_lex)

\* Lines 192-201: the filters in the order of the calls.
FilterChain(probs, count_dict, a, lang, complete_lex) ==
    LET t1 == filter_most_common_conns(probs, a.word_threshold, a.phrase_threshold)
        t2 == remove_low_counts(t1, count_dict, a.word_min_count, a.phrase_min_count)
        t3 == filter_unlikely_alignments(t2, lang)
        t4 == remove_incomplete_phrases(t3)
        t5 == filter_single_words(t4, lang)
        t6 == remove_pronouns(t5, OtherLang(lang))
    IN  complete_phrases(t6, complete_lex)

\* A variant of NewConns without the test "word not in other_lex".
NewConnsUnchecked(new_alignments, other_lex) ==
    {w \in UNION {ToSet(Keys(new_alignments[k])) : k \in DOMAIN new_alignments} :
        w # ""}

\* A variant of NewConns without the test "if word".
NewConnsWithEmpty(new_alignments, other_lex) ==
    {w \in UNION {ToSet(Keys(new_alignments[k])) : k \in DOMAIN new_alignments} :
        ~InList(w, other_lex)}

\* Lines 204-208: the set the list new_conns is made from.
NewConns(new_alignments, other_lex) ==
    {w \in UNION {ToSet(Keys(new_alignments[k])) : k \in DOMAIN new_alignments} :
        w # "" /\ ~InList(w, other_lex)}

\* The orders list(set(new_conns)) can give.
Orders(S) == {q \in [1..Cardinality(S) -> S] : \A i, j \in 1..Cardinality(S) :
                                                   i # j => q[i] # q[j]}

\* A variant of NextLex that hands new_conns to every next round.
OnlyNewConns(count, lexicon, new_conns) == new_conns

\* A variant of Returns that lets one round more run.
ReturnsLate(count, limit) == count = limit + 1

\* Line 221: if self.counter == limit
Returns(count, limit) == count = limit

\* Lines 224-231: the lexicon handed to the next round.
NextLex(count, lexicon, new_conns) == IF count = 1 THEN lexicon ELSE new_conns

\* Lines 153-173: the lexicon of the round and the three candidate lists.
Gathered(lex, alignments, scanned, lang) ==
    [lex |-> lex,
     single |-> Lookup(alignments, SingleWords(lex)),
     phrase |-> parse_phrase_alignments(scanned, Phrases(lex), LangPos(lang)),
     discont |-> parse_discontinuous(scanned, Discontinuous(lex), LangPos(lang))]

\* A variant of CountDict that starts every round from an empty count table.
CountDictFresh(count, g) ==
    Merge(Merge(conn_count(g.single, g.lex), conn_count(g.phrase, Phrases(g.lex))),
          conn_count(g.discont, Discontinuous(g.lex)))

\* Lines 175-185: the Count Table of the language after the three updates.
CountDict(count, g) ==
    Merge(Merge(Merge(count, conn_count(g.single, g.lex)),
                conn_count(g.phrase, Phrases(g.lex))),
          conn_count(g.discont, Discontinuous(g.lex)))

\* Lines 188-189: {**new_alignments, **new_phrase_alignments, **new_discontinuous}
Combined(g) == Merge(Merge(Touched(g.single, g.lex), g.phrase), g.discont)

\* What one round computed.
Outcome(lang, g, other_lex, combined, count_dict, probs, table) ==
    [lang |-> lang, lex |-> g.lex, other_lex |-> other_lex,
     combined |-> combined, count_dict |-> count_dict, probs |-> probs,
     table |-> table, new_conns |-> NewConns(table, other_lex)]

\* Lines 192-201 on the probabilities of the round.
Filtered(a, g, other_lex, complete_lex, combined, count_dict, probs) ==
    Outcome(a.lang, g, other_lex, combined, count_dict, probs,
            FilterChain(probs, count_dict, a, a.lang, complete_lex))

\* Lines 190-191
Estimated(a, g, other_lex, complete_lex, combined, count_dict) ==
    Filtered(a, g, other_lex, complete_lex, combined, count_dict,
             alignment_probabilities(remove_punct_values(combined)))

Counted(a, g, own_count, other_lex, complete_lex) ==
    Estimated(a, g, other_lex, complete_lex, Combined(g), CountDict(own_count, g))

\* Lines 118-208 for one call: what the body computes from the arguments a and
\* the attributes o of the object.
Body(a, o) ==
    IF a.lang = "french"
    THEN Counted(a, Gathered(Seed(a.lex, a.lang, o.fr_lex), o.fr_de, o.corpus, a.lang),
                 o.fr_count, o.de_lex, o.all_de_conns)
    ELSE Counted(a, Gathered(Seed(a.lex, a.lang, o.de_lex), o.de_fr, o.corpus, a.lang),
                 o.de_count, o.fr_lex, o.all_fr_conns)

(***************************************************************************)
(* The inputs of the model                                                 *)
(***************************************************************************)

\* The largest limit given to find_conns.
MaxLimit == 3

\* The largest number of calls of find_conns on one object.
MaxCalls == 2

\* The number of nested calls of find_conns the interpreter allows before it
\* raises RecursionError (1000 frames by default in CPython; kept above
\* MaxLimit).
RecursionLimit == 4

Line(index, de, fr) == [index |-> index, de |-> de, fr |-> fr]

\* The one-line corpus of the end-to-end scenario.
ScenarioCorpus == <<Line("0-0 1-2 2-1 3-3 4-4", "er macht es trotzdem .",
                         "il le fait cependant .")>>

\* A corpus in which each language has connectives the other lexicon lacks.
DiscoveryCorpus ==
    <<Line("0-1 1-3 2-0 3-2 3-4", "er kommt aber nicht", "mais il ne vient pas"),
      Line("0-0 1-1 2-2", "aber er kommt", "cependant il vient"),
      Line("0-0 1-2 2-1", "jedoch kommt er", "mais il vient")>>

\* A corpus with an unaligned connective, a connective aligned to a comma, a
\* phrase, a discontinuous phrase and a connective the German lexicon lacks.
NoiseCorpus ==
    <<Line("0-0 0-1 1-2 2-3 3-5", "obwohl er kommt ,", "bien que il vient , or"),
      Line("0-1 1-2 2-3", "er kommt also", "pourtant il vient donc"),
      Line("0-1 2-0 2-2 3-3", "zwar er aber kommt", "certes il mais vient")>>

\* A corpus in which a connective is aligned five times to a phrase and once
\* to a word of that phrase.
OrderCorpus ==
    <<Line("0-0 1-0", "aber doch", "donc"), Line("0-0 1-0", "aber doch", "donc"),
      Line("0-0 1-0", "aber doch", "donc"), Line("0-0 1-0", "aber doch", "donc"),
      Line("0-0 1-0", "aber doch", "donc"), Line("0-0", "doch", "donc")>>

\* A corpus in which a connective is aligned once with the first and the last
\* word of a phrase of the French lexicon and once with the pronoun inside it.
CompletionCorpus ==
    <<Line("0-0 0-2", "sozusagen", "comme on dit"),
      Line("0-1", "sozusagen", "comme on dit")>>

\* The arguments of the constructor: the corpus files and the four lexicons.
\* The two caches are what parse_alignments saved for the same corpus.
Setups ==
    {[corpus |-> ScenarioCorpus, fr_lex |-> <<"cependant">>, de_lex |-> <<>>,
      all_fr_conns |-> <<"cependant">>, all_de_conns |-> <<>>],
     [corpus |-> DiscoveryCorpus,
      fr_lex |-> <<"mais", "ne ... pas", "si">>, de_lex |-> <<"aber", "dabei">>,
      all_fr_conns |-> <<"mais", "ne ... pas", "si", "bien que">>,
      all_de_conns |-> <<"aber", "dabei", "obwohl">>],
     [corpus |-> NoiseCorpus,
      fr_lex |-> <<"or", "bien que", "certes ... mais", "pourtant", "donc">>,
      de_lex |-> <<"obwohl", "zwar ... aber">>,
      all_fr_conns |-> <<"or", "bien que", "certes ... mais", "pourtant", "donc">>,
      all_de_conns |-> <<"obwohl", "zwar ... aber">>],
     [corpus |-> OrderCorpus, fr_lex |-> <<"donc">>, de_lex |-> <<"also">>,
      all_fr_conns |-> <<"donc">>, all_de_conns |-> <<"also">>],
     [corpus |-> CompletionCorpus,
      fr_lex |-> <<"comme on dit">>, de_lex |-> <<"sozusagen">>,
      all_fr_conns |-> <<"comme on dit">>, all_de_conns |-> <<"sozusagen">>]}

Zero == [n |-> 0, d |-> 1]

\* The thresholds and minimum counts given to find_conns: no filtering, the
\* defaults of the signature, a threshold above one half, a minimum count of
\* two, and a minimum count of phrases above that of words.
Settings ==
    {[word_threshold |-> Zero, phrase_threshold |-> Zero,
      word_min_count |-> 0, phrase_min_count |-> 0],
     [word_threshold |-> Frac(1, 50), phrase_threshold |-> Frac(1, 50),
      word_min_count |-> 20, phrase_min_count |-> 10],
     [word_threshold |-> Frac(3, 5), phrase_threshold |-> Zero,
      word_min_count |-> 0, phrase_min_count |-> 2],
     [word_threshold |-> Zero, phrase_threshold |-> Zero,
      word_min_count |-> 2, phrase_min_count |-> 1],
     [word_threshold |-> Zero, phrase_threshold |-> Zero,
      word_min_count |-> 1, phrase_min_count |-> 6]}

(***************************************************************************)
(* The state: the attributes of a FindAlignments object, the arguments of  *)
(* the active call of find_conns, a record of the rounds run and the       *)
(* number of calls made. probe holds the input, and after an application   *)
(* the outcome, of a function of the two modules applied on its own.       *)
(***************************************************************************)

VARIABLES counter, fr_lex, de_lex, all_fr_conns, all_de_conns,
          fr_conn_alignments, de_conn_alignments, fr_count, de_count,
          de_fr, fr_de, corpus,
          pc, depth, frame, rounds, calls, probe

vars == <<counter, fr_lex, de_lex, all_fr_conns, all_de_conns,
          fr_conn_alignments, de_conn_alignments, fr_count, de_count,
          de_fr, fr_de, corpus, pc, depth, frame, rounds, calls, probe>>

\* The attributes the body of find_conns reads.
Self == [fr_lex |-> fr_lex, de_lex |-> de_lex, all_fr_conns |-> all_fr_conns,
         all_de_conns |-> all_de_conns, fr_count |-> fr_count,
         de_count |-> de_count, de_fr |-> de_fr, fr_de |-> fr_de,
         corpus |-> corpus]

NoCall == [lex |-> <<>>, lang |-> "german", limit |-> 1,
           word_threshold |-> Frac(1, 50), phrase_threshold |-> Frac(1, 50),
           word_min_count |-> 20, phrase_min_count |-> 10]

\* No function has been applied on its own.
NoProbe == [op |-> "none"]

\* FindAlignments.__init__ for the arguments s.
Constructed(s) ==
    /\ corpus = s.corpus
    /\ de_fr = parse_alignments(s.corpus).de_fr
    /\ fr_de = parse_alignments(s.corpus).fr_de
    /\ fr_lex = s.fr_lex
    /\ de_lex = s.de_lex
    /\ all_fr_conns = s.all_fr_conns
    /\ all_de_conns = s.all_de_conns
    /\ counter = 0
    /\ de_conn_alignments = EmptyDict
    /\ fr_conn_alignments = EmptyDict
    /\ de_count = EmptyDict
    /\ fr_count = EmptyDict
    /\ pc = "idle"
    /\ depth = 0
    /\ frame = NoCall
    /\ rounds = <<>>
    /\ calls = 0

Init ==
    /\ \E s \in Setups : Constructed(s)
    /\ probe = NoProbe

\* The main program calls find_conns with the default lex = [].
Call(lang, limit, setting) ==
    /\ pc = "idle"
    /\ pc' = "running"
    /\ depth' = 1
    /\ frame' = [lex |-> <<>>, lang |-> lang, limit |-> limit,
                 word_threshold |-> setting.word_threshold,
                 phrase_threshold |-> setting.phrase_threshold,
                 word_min_count |-> setting.word_min_count,
                 phrase_min_count |-> setting.phrase_min_count]
    /\ calls' = calls + 1
    /\ UNCHANGED <<counter, fr_lex, de_lex, all_fr_conns, all_de_conns,
                   fr_conn_alignments, de_conn_alignments, fr_count, de_count,
                   de_fr, fr_de, corpus, rounds, probe>>

\* Lines 210-231 for the outcome b of the round: the updates of the
\* attributes, then the return of line 222, the nested call of lines 227 / 230,
\* or the RecursionError that call raises.
Finish(b, french) ==
    \E new_conns \in Orders(b.new_conns) :
       /\ counter' = counter + 1
       /\ fr_count' = IF french THEN b.count_dict ELSE fr_count
       /\ de_count' = IF french THEN de_count ELSE b.count_dict
       /\ fr_conn_alignments' =
             IF french THEN Merge(fr_conn_alignments, b.table)
             ELSE fr_conn_alignments
       /\ de_conn_alignments' =
             IF french THEN de_conn_alignments
             ELSE Merge(de_conn_alignments, b.table)
       /\ de_lex' = IF french THEN de_lex \o new_conns ELSE de_lex
       /\ fr_lex' = IF french THEN fr_lex ELSE fr_lex \o new_conns
       /\ rounds' = Append(rounds, b)
       /\ IF Returns(counter', frame.limit)
          THEN /\ pc' = "returned"
               /\ depth' = 0
               /\ frame' = frame
          ELSE IF depth = RecursionLimit
          THEN /\ pc' = "RecursionError"
               /\ depth' = 0
               /\ frame' = frame
          ELSE /\ pc' = "running"
               /\ depth' = depth + 1
               /\ frame' = [frame EXCEPT
                     !.lex = NextLex(counter', IF french THEN de_lex'
                                               ELSE fr_lex', new_conns),
                     !.lang = OtherLang(frame.lang)]

\* A variant of Round that writes the outcome of a round to the attributes
\* of the other language.
RoundOfOtherLanguage ==
    /\ pc = "running"
    /\ Finish(Body(frame, Self), frame.lang # "french")
    /\ UNCHANGED <<all_fr_conns, all_de_conns, de_fr, fr_de, corpus, calls, probe>>

\* The body of find_conns for the active call: one round.
Round ==
    /\ pc = "running"
    /\ Finish(Body(frame, Self), frame.lang = "french")
    /\ UNCHANGED <<all_fr_conns, all_de_conns, de_fr, fr_de, corpus, calls, probe>>

Next ==
    \/ \E lang \in {"french", "german"}, limit \in 0..MaxLimit, setting \in Settings :
          Call(lang, limit, setting)
    \/ Round

Spec == Init /\ [][Next]_vars

\* A further call of find_conns on the object after a call has returned: the
\* attributes, counter among them, are as the earlier call left them.
Again(lang, limit, setting) ==
    /\ pc = "returned"
    /\ calls < MaxCalls
    /\ pc' = "running"
    /\ depth' = 1
    /\ frame' = [lex |-> <<>>, lang |-> lang, limit |-> limit,
                 word_threshold |-> setting.word_threshold,
                 phrase_threshold |-> setting.phrase_threshold,
                 word_min_count |-> setting.word_min_count,
                 phrase_min_count |-> setting.phrase_min_count]
    /\ calls' = calls + 1
    /\ UNCHANGED <<counter, fr_lex, de_lex, all_fr_conns, all_de_conns,
                   fr_conn_alignments, de_conn_alignments, fr_count, de_count,
                   de_fr, fr_de, corpus, rounds, probe>>

\* The settings of the further calls: no filtering and the defaults.
ReuseSettings == {setting \in Settings : setting.word_min_count \in {0, 20}
                                           /\ setting.word_threshold # Frac(3, 5)}

NextReuse ==
    \/ Next
    \/ \E lang \in {"french", "german"}, limit \in 1..MaxLimit,
          setting \in ReuseSettings : Again(lang, limit, setting)

\* The object used for several calls.
ReuseSpec == Init /\ [][NextReuse]_vars

(***************************************************************************)
(* The three parsers applied on their own to small corpora. The object is  *)
(* not used: its attributes stay as the constructor left them.             *)
(***************************************************************************)

\* Alignment lines with their sentences: well-formed ones, ones with a
\* position part that is no number, one with a token without "-", and ones
\* in which a word is aligned with a phrase that ends in a contraction, and
\* ones in which a word is aligned with words that are not adjacent: twice
\* non-adjacent, across a comma, and with the pairs in descending order.
ParserLines ==
    {Line("0-0 1-1", "zwar aber", "certes mais"),
     Line("a-0 1-1", "zwar aber", "certes mais"),
     Line("0-x 1-1", "zwar aber", "certes mais"),
     Line("0-0 1", "zwar aber", "certes mais"),
     Line("0-0 0-1 0-2", "wegen", "a cause des"),
     Line("0-0 0-1 0-2", "wegen", "du cote des"),
     Line("0-0 1-0", "bis zum", "au"),
     Line("0-0", "wegen", "des"),
     Line("0-0 0-2 0-4", "wegen", "a , cause de cela"),
     Line("0-0 2-0 5-0", "zwar , aber er sagt doch", "au"),
     Line("2-0 0-0", "zwar er aber", "au"),
     Line("0-0 2-0", "zwar er aber", "au"),
     Line("0-2 0-0", "wegen", "a , cause")}

\* The corpora of one and of two lines.
ParserCorpora ==
    {<<l>> : l \in ParserLines} \cup {<<l, m>> : l, m \in ParserLines}

\* The phrases looked for by parse_phrase_alignments and parse_discontinuous.
ScanPhrases == {<<"zwar aber", "wegen", "bis zum">>, <<"certes mais", "a cause des", "au">>}

ScanDiscontinuous == {<<"zwar ... aber">>, <<"certes ... mais">>}

\* The object of the main program, which the parsers do not touch.
Unused == CHOOSE s \in Setups : s.corpus = ScenarioCorpus

ParserInit ==
    /\ Constructed(Unused)
    /\ \E c \in ParserCorpora :
          probe = [op |-> "none", corpus |-> c, lang |-> 0, phrases |-> <<>>,
                   err |-> FALSE, de_fr |-> EmptyDict, fr_de |-> EmptyDict,
                   phrase_alignments |-> EmptyDict]

\* The outcome of parse_alignments: the exception, or the two dictionaries.
ParseAlignmentsOutcome(p, parsed) ==
    [p EXCEPT !.op = "parse_alignments", !.err = parsed.err,
              !.de_fr = IF parsed.err THEN EmptyDict ELSE parsed.de_fr,
              !.fr_de = IF parsed.err THEN EmptyDict ELSE parsed.fr_de]

\* de_fr_alignments, fr_de_alignments = parse_alignments(result, german, french)
ApplyParseAlignments ==
    /\ probe.op = "none"
    /\ probe' = ParseAlignmentsOutcome(probe, parse_alignments(probe.corpus))
    /\ UNCHANGED <<counter, fr_lex, de_lex, all_fr_conns, all_de_conns,
                   fr_conn_alignments, de_conn_alignments, fr_count, de_count,
                   de_fr, fr_de, corpus, pc, depth, frame, rounds, calls>>

\* parse_phrase_alignments(result, language1, language2, phrases, lang)
ApplyParsePhraseAlignments(phrases, lang) ==
    /\ probe.op = "none"
    /\ probe' = [probe EXCEPT
          !.op = "parse_phrase_alignments", !.lang = lang, !.phrases = phrases,
          !.err = ScanError(probe.corpus),
          !.phrase_alignments =
              IF ScanError(probe.corpus) THEN EmptyDict
              ELSE parse_phrase_alignments(probe.corpus, phrases, lang)]
    /\ UNCHANGED <<counter, fr_lex, de_lex, all_fr_conns, all_de_conns,
                   fr_conn_alignments, de_conn_alignments, fr_count, de_count,
                   de_fr, fr_de, corpus, pc, depth, frame, rounds, calls>>

\* parse_discontinuous(result, language1, language2, phrases, lang)
ApplyParseDiscontinuous(phrases, lang) ==
    /\ probe.op = "none"
    /\ probe' = [probe EXCEPT
          !.op = "parse_discontinuous", !.lang = lang, !.phrases = phrases,
          !.err = ScanError(probe.corpus),
          !.phrase_alignments =
              IF ScanError(probe.corpus) THEN EmptyDict
              ELSE parse_discontinuous(probe.corpus, phrases, lang)]
    /\ UNCHANGED <<counter, fr_lex, de_lex, all_fr_conns, all_de_conns,
                   fr_conn_alignments, de_conn_alignments, fr_count, de_count,
                   de_fr, fr_de, corpus, pc, depth, frame, rounds, calls>>

ParserNext ==
    \/ ApplyParseAlignments
    \/ \E phrases \in ScanPhrases, lang \in {1, 2} :
          ApplyParsePhraseAlignments(phrases, lang)
    \/ \E phrases \in ScanDiscontinuous, lang \in {1, 2} :
          ApplyParseDiscontinuous(phrases, lang)

ParserSpec == ParserInit /\ [][ParserNext]_vars

(***************************************************************************)
(* The seven filters applied on their own to small tables. Besides the     *)
(* table a filter returns, a step records the contents the table passed in *)
(* has once the call is over.                                              *)
(***************************************************************************)

\* The targets of the tables, each with the number of its observations.
FilterTargets ==
    <<<<"aber", 5>>, <<"doch", 1>>, <<"aber doch", 5>>, <<"er", 1>>, <<"dass", 1>>,
      <<"so ... dass", 1>>, <<"so sehr dass", 5>>, <<"", 1>>>>

\* Targets of which one is a part of the next and that of a third, and two
\* gapped targets with the same first and last word.
NestedTargets ==
    <<<<"aber", 16>>, <<"wenn auch nur", 2>>, <<"wenn auch", 4>>,
      <<"selbst wenn auch nur", 1>>, <<"so ... dass", 1>>, <<"so sehr ... dass", 1>>>>

\* A gapped target and the complete phrase with an elided article, the
\* example of the docstring of remove_incomplete_phrases.
ElidedTargets == <<<<"a ... occasion", 1>>, <<"a l' occasion", 5>>, <<"aber", 5>>>>

\* The Counter of a source aligned with the targets at the positions kept; the
\* nested targets are also stored in the opposite order.
FilterCounters ==
    LET Reversed == [i \in 1..Len(NestedTargets) |->
                        NestedTargets[Len(NestedTargets) + 1 - i]]
    IN  {SelectList(FilterTargets, kept, 1) : kept \in SUBSET (1..Len(FilterTargets))}
        \cup {SelectList(NestedTargets, kept, 1) : kept \in SUBSET (1..Len(NestedTargets))}
        \cup {SelectList(Reversed, kept, 1) : kept \in SUBSET (1..Len(NestedTargets))}
        \cup {SelectList(ElidedTargets, kept, 1) : kept \in SUBSET (1..Len(ElidedTargets))}

\* The thresholds given to filter_most_common_conns.
Thresholds == {Zero, Frac(1, 50), Frac(1, 2), Frac(3, 5)}

\* The minimum counts given to remove_low_counts.
MinCounts == {<<setting.word_min_count, setting.phrase_min_count>> : setting \in Settings}

\* The lexicons given to complete_phrases.
CompleteLexicons == {<<"so sehr dass">>, <<"so lange dass", "aber">>}

\* The table and the Count Table of one source; the Count Table holds the
\* source or, for a table that was not counted with it, does not.
FilterInit ==
    /\ Constructed(Unused)
    /\ \E counted \in FilterCounters, held \in BOOLEAN :
          probe = [op |-> "none",
                   table |-> ("mais" :> Probabilities(counted)),
                   count_dict |-> IF held THEN ("mais" :> counted) ELSE EmptyDict,
                   lang |-> "", lex |-> <<>>,
                   word_threshold |-> Zero, phrase_threshold |-> Zero,
                   word_count |-> 0, phrase_count |-> 0,
                   err |-> FALSE, out |-> EmptyDict, after |-> EmptyDict]

\* The call op has returned out and left the table passed in as after.
FilterOutcome(p, op, out, after) ==
    [p EXCEPT !.op = op, !.out = out, !.after = after]

UnusedObject ==
    UNCHANGED <<counter, fr_lex, de_lex, all_fr_conns, all_de_conns,
                fr_conn_alignments, de_conn_alignments, fr_count, de_count,
                de_fr, fr_de, corpus, pc, depth, frame, rounds, calls>>

\* filtered = deepcopy(dictionary) ... return filtered
ApplyFilterMostCommonConns(word_threshold, phrase_threshold) ==
    /\ probe.op = "none"
    /\ probe' = [FilterOutcome(probe, "filter_most_common_conns",
                     filter_most_common_conns(probe.table, word_threshold,
                                              phrase_threshold),
                     probe.table)
                 EXCEPT !.word_threshold = word_threshold,
                        !.phrase_threshold = phrase_threshold]
    /\ UnusedObject

\* filtered_prob_dict = deepcopy(prob_dict) ... return filtered_prob_dict, or
\* the KeyError of count_dict[source].
ApplyRemoveLowCounts(word_count, phrase_count) ==
    /\ probe.op = "none"
    /\ probe' = [FilterOutcome(probe, "remove_low_counts",
                     IF LowCountsError(probe.table, probe.count_dict) THEN EmptyDict
                     ELSE remove_low_counts(probe.table, probe.count_dict,
                                            word_count, phrase_count),
                     probe.table)
                 EXCEPT !.word_count = word_count, !.phrase_count = phrase_count,
                        !.err = LowCountsError(probe.table, probe.count_dict)]
    /\ UnusedObject

\* del alignments[source][...] on the table passed in; return alignments
ApplyFilterUnlikelyAlignments(lang) ==
    /\ probe.op = "none"
    /\ probe' = [FilterOutcome(probe, "filter_unlikely_alignments",
                     filter_unlikely_alignments(probe.table, lang),
                     filter_unlikely_alignments(probe.table, lang))
                 EXCEPT !.lang = lang]
    /\ UnusedObject

\* filtered_alignments = deepcopy(alignments) ... return filtered_alignments
ApplyRemoveIncompletePhrases ==
    /\ probe.op = "none"
    /\ probe' = FilterOutcome(probe, "remove_incomplete_phrases",
                    remove_incomplete_phrases(probe.table), probe.table)
    /\ UnusedObject

\* del alignments[source][single] on the table passed in; return alignments
ApplyFilterSingleWords(lang) ==
    /\ probe.op = "none"
    /\ probe' = [FilterOutcome(probe, "filter_single_words",
                     filter_single_words(probe.table, lang),
                     filter_single_words(probe.table, lang))
                 EXCEPT !.lang = lang]
    /\ UnusedObject

\* filtered_alignments = deepcopy(alignments) ... return filtered_alignments
ApplyRemovePronouns(lang) ==
    /\ probe.op = "none"
    /\ probe' = [FilterOutcome(probe, "remove_pronouns",
                     remove_pronouns(probe.table, lang), probe.table)
                 EXCEPT !.lang = lang]
    /\ UnusedObject

\* filtered = deepcopy(alignments) ... return filtered
ApplyCompletePhrases(lex) ==
    /\ probe.op = "none"
    /\ probe' = [FilterOutcome(probe, "complete_phrases",
                     complete_phrases(probe.table, lex), probe.table)
                 EXCEPT !.lex = lex]
    /\ UnusedObject

FilterNext ==
    \/ \E word_threshold \in Thresholds, phrase_threshold \in Thresholds :
          ApplyFilterMostCommonConns(word_threshold, phrase_threshold)
    \/ \E counts \in MinCounts : ApplyRemoveLowCounts(counts[1], counts[2])
    \/ \E lang \in {"french", "german"} : ApplyFilterUnlikelyAlignments(lang)
    \/ ApplyRemoveIncompletePhrases
    \/ \E lang \in {"french", "german"} : ApplyFilterSingleWords(lang)
    \/ \E lang \in {"french", "german"} : ApplyRemovePronouns(lang)
    \/ \E lex \in CompleteLexicons : ApplyCompletePhrases(lex)

FilterSpec == FilterInit /\ [][FilterNext]_vars

(***************************************************************************)
(* remove_punct_phrases on its own: one call on the tokens of a phrase     *)
(* candidate, as the parsers build them: words, commas and gap markers.    *)
(***************************************************************************)

TokenLists == UNION {[1..n -> {",", "...", "weil"}] : n \in 1..5}

TokenInit ==
    /\ Constructed(Unused)
    /\ \E tokens \in TokenLists :
          probe = [op |-> "none", tokens |-> tokens, out |-> <<>>]

\* new_phrase = remove_punct_phrases(new_phrase)
ApplyRemovePunctPhrases ==
    /\ probe.op = "none"
    /\ probe' = [probe EXCEPT !.op = "remove_punct_phrases",
                              !.out = remove_punct_phrases(probe.tokens)]
    /\ UnusedObject

TokenNext == ApplyRemovePunctPhrases

TokenSpec == TokenInit /\ [][TokenNext]_vars

(***************************************************************************)
(* The properties of find_conns                                            *)
(***************************************************************************)

One == [n |-> 1, d |-> 1]

\* The targets of a table, over all its source keys.
Targets(table) == UNION {ToSet(Keys(table[k])) : k \in DOMAIN table}

NoDuplicates(list) ==
    \A i, j \in 1..Len(list) : i # j => list[i] # list[j]

IsPrefix(s, t) == Len(s) <= Len(t) /\ SubSeq(t, 1, Len(s)) = s

RECURSIVE SumProbs(_, _)
SumProbs(targets, i) ==
    IF i > Len(targets) THEN Zero
    ELSE FracAdd(targets[i][2], SumProbs(targets, i + 1))

Occurrences(x, list) == Cardinality({i \in 1..Len(list) : list[i] = x})

\* The lexicon of the language a round of language lang adds to.
OtherLexicon(lang) == IF lang = "french" THEN de_lex ELSE fr_lex

NoFiltering ==
    /\ frame.word_threshold = Zero /\ frame.phrase_threshold = Zero
    /\ frame.word_min_count = 0 /\ frame.phrase_min_count = 0

\* C1: a call find_conns(limit = L) with L >= 1 on a fresh object runs
\* exactly L rounds: while it runs fewer than L rounds are done, it never ends
\* in a RecursionError, on return counter = L and L rounds were run, and with
\* L = 1 the one round is a round of the starting language that leaves the
\* table and the counts of the other language empty.
C1_ExactlyLimitRounds ==
    (pc # "idle" /\ frame.limit >= 1) =>
        /\ pc # "RecursionError"
        /\ counter = Len(rounds)
        /\ pc = "running" => Len(rounds) < frame.limit
        /\ pc = "returned" => counter = frame.limit /\ Len(rounds) = frame.limit
        /\ (pc = "returned" /\ frame.limit = 1) =>
              /\ rounds[1].lang = frame.lang
              /\ frame.lang = "french" =>
                    de_conn_alignments = EmptyDict /\ de_count = EmptyDict
              /\ frame.lang = "german" =>
                    fr_conn_alignments = EmptyDict /\ fr_count = EmptyDict

C1_Witness == pc = "returned" /\ frame.limit = 2 /\ counter = 2

\* C2: a call find_conns(limit = L) with L < 1 runs no round.
C2_LimitBelowOneRunsNoRound ==
    (pc # "idle" /\ frame.limit < 1) => Len(rounds) = 0

\* C3: consecutive rounds are rounds of opposite languages; with limit = 3
\* and French as the starting language the rounds are French, German, French.
C3_LanguagesAlternate ==
    /\ \A n \in 1..(Len(rounds) - 1) :
          {rounds[n].lang, rounds[n + 1].lang} = {"french", "german"}
    /\ (pc = "returned" /\ frame.limit = 3 /\ rounds[1].lang = "french") =>
          [n \in 1..3 |-> rounds[n].lang] = <<"french", "german", "french">>

C3_Witness ==
    /\ pc = "returned" /\ frame.limit = 3 /\ Len(rounds) = 3
    /\ rounds[1].lang = "french" /\ rounds[3].lang = "french"

\* C4: the lexicon of round 2 holds the entries the lexicon of its language
\* had before round 1 and the connectives round 1 found, without the deleted
\* connectives of the language.
C4_RoundTwoSeesFullLexicon ==
    Len(rounds) >= 2 =>
        ToSet(rounds[2].lex) =
            (ToSet(rounds[1].other_lex) \cup rounds[1].new_conns)
                \ Deleted(rounds[2].lang)

C4_Witness ==
    /\ Len(rounds) >= 2
    /\ rounds[1].new_conns # {}
    /\ ToSet(rounds[2].lex) \ rounds[1].new_conns # {}
    /\ ToSet(rounds[1].other_lex) \cap Deleted(rounds[2].lang) # {}

\* C5: the lexicon of every round n >= 3 is the set of new connectives of
\* round n - 1, also when that set is empty.
C5_LaterRoundsSeeNewConns ==
    \A n \in 3..Len(rounds) : ToSet(rounds[n].lex) = rounds[n - 1].new_conns

\* C6: no step removes or moves an entry of either lexicon, and no step makes
\* a lexicon hold an entry twice.
C6_LexiconsGrow ==
    [][/\ IsPrefix(fr_lex, fr_lex') /\ IsPrefix(de_lex, de_lex')
       /\ NoDuplicates(fr_lex') /\ NoDuplicates(de_lex')]_vars

C6_Witness ==
    /\ Len(rounds) >= 1
    /\ rounds[1].lang = "french"
    /\ Len(de_lex) > Len(rounds[1].other_lex)
    /\ Targets(rounds[1].table) \cap ToSet(rounds[1].other_lex) # {}

\* The new connectives of round n are the members of S, and the round
\* appended each of them once to the lexicon of the other language.
Extracted(n, S) ==
    /\ rounds[n].new_conns = S
    /\ n = Len(rounds) =>
          /\ ToSet(OtherLexicon(rounds[n].lang)) = ToSet(rounds[n].other_lex) \cup S
          /\ Len(OtherLexicon(rounds[n].lang)) =
                Len(rounds[n].other_lex) + Cardinality(S)

C8_ProbabilitiesSumToOne ==
    \A n \in 1..Len(rounds) : \A key \in DOMAIN rounds[n].probs :
        LET targets == rounds[n].probs[key]
            observed == remove_punct_values(rounds[n].combined)[key]
        IN  /\ SumProbs(targets, 1) = One
            /\ \A i \in 1..Len(targets) :
                  targets[i][2] =
                      Frac(Occurrences(targets[i][1], observed), Len(observed))

C8_Witness ==
    \E n \in 1..Len(rounds) : \E key \in DOMAIN rounds[n].probs :
        Len(rounds[n].probs[key]) >= 2

\* The call of the end-to-end scenario has returned.
ScenarioReturned ==
    /\ corpus = ScenarioCorpus
    /\ pc = "returned" /\ frame.limit = 1 /\ rounds[1].lang = "french"
    /\ rounds[1].lex = <<"cependant">>
    /\ NoFiltering

\* C9: for the one-line corpus, the lexicon {cependant}, thresholds 0,
\* minimum counts 0 and limit 1 starting in French, the French table is
\* {cependant: {trotzdem: 1}}.
C9_EndToEnd ==
    ScenarioReturned =>
        fr_conn_alignments = ("cependant" :> <<<<"trotzdem", One>>>>)

C9_Witness == ScenarioReturned /\ "cependant" \in DOMAIN fr_conn_alignments

\* Every observation of key in round n is the empty string.
OnlyUnaligned(n, key) ==
    /\ key \in DOMAIN rounds[n].combined
    /\ Len(rounds[n].combined[key]) > 0
    /\ \A i \in 1..Len(rounds[n].combined[key]) : rounds[n].combined[key][i] = ""

C11_NoEmptyMapping ==
    /\ \A key \in DOMAIN fr_conn_alignments : fr_conn_alignments[key] # <<>>
    /\ \A key \in DOMAIN de_conn_alignments : de_conn_alignments[key] # <<>>

\* The complete lexicon a round of language lang is given.
CompleteLexicon(lang) == IF lang = "french" THEN all_de_conns ELSE all_fr_conns

\* The table of round n after the threshold filter.
AboveThreshold(n) ==
    filter_most_common_conns(rounds[n].probs, frame.word_threshold,
                             frame.phrase_threshold)

\* The minimum-count filter, then the unlikely-alignment filter.
CountsThenUnlikely(n, table) ==
    filter_unlikely_alignments(
        remove_low_counts(table, rounds[n].count_dict, frame.word_min_count,
                          frame.phrase_min_count),
        rounds[n].lang)

\* The unlikely-alignment filter, then the minimum-count filter.
UnlikelyThenCounts(n, table) ==
    remove_low_counts(filter_unlikely_alignments(table, rounds[n].lang),
                      rounds[n].count_dict, frame.word_min_count,
                      frame.phrase_min_count)

\* C12: the table of a round is the result of the threshold filter, the
\* minimum-count filter, the unlikely-alignment filter, the incomplete-phrase
\* filter, the single-word filter, the pronoun filter and the phrase
\* completion, each applied once, in this order, to the result of the one
\* before it, starting from the probabilities of the round.
C12_FilterOrder ==
    \A n \in 1..Len(rounds) :
        rounds[n].table =
            complete_phrases(
                remove_pronouns(
                    filter_single_words(
                        remove_incomplete_phrases(CountsThenUnlikely(n, AboveThreshold(n))),
                        rounds[n].lang),
                    OtherLang(rounds[n].lang)),
                CompleteLexicon(rounds[n].lang))

\* A round in which the order of the second and third filter shows.
C12_Witness ==
    \E n \in 1..Len(rounds) :
        /\ CountsThenUnlikely(n, AboveThreshold(n)) # UnlikelyThenCounts(n, AboveThreshold(n))
        /\ \E key \in DOMAIN rounds[n].table : rounds[n].table[key] # <<>>

\* In table, key has a phrase target counted below phrase_min_count, the only
\* phrase target of the key, and a target that is a word of the phrase, has a
\* probability below 0.18 and is counted at least word_min_count times.
ShieldedWord(n, table, key) ==
    \E i, j \in 1..Len(table[key]) :
        LET phrase == table[key][i][1]
            word == table[key][j][1]
        IN  /\ Len(Split(phrase)) > 1
            /\ \A k \in 1..Len(table[key]) : Len(Split(table[key][k][1])) > 1 => k = i
            /\ CountOf(rounds[n].count_dict[key], phrase) < frame.phrase_min_count
            /\ Last(Split(phrase)) \notin UnlikelyWords(rounds[n].lang)
            /\ Len(Split(word)) = 1
            /\ InList(word, Split(phrase))
            /\ word \notin UnlikelyWords(rounds[n].lang)
            /\ FracLess(table[key][j][2], ShortLimit)
            /\ CountOf(rounds[n].count_dict[key], word) >= frame.word_min_count

\* C13: for a table with a phrase target counted below the phrase minimum
\* and a rare word of that phrase counted at least the word minimum, the
\* unlikely-alignment filter followed by the minimum-count filter gives
\* another table than the two filters in the order of the pipeline.
C13_FiltersDoNotCommute ==
    \A n \in 1..Len(rounds) :
        (\E key \in DOMAIN AboveThreshold(n) : ShieldedWord(n, AboveThreshold(n), key)) =>
            CountsThenUnlikely(n, AboveThreshold(n)) # UnlikelyThenCounts(n, AboveThreshold(n))

C13_Witness ==
    \E n \in 1..Len(rounds) : \E key \in DOMAIN AboveThreshold(n) :
        /\ ShieldedWord(n, AboveThreshold(n), key)
        /\ CountsThenUnlikely(n, AboveThreshold(n))[key] = <<<<"doch", Frac(1, 6)>>>>
        /\ UnlikelyThenCounts(n, AboveThreshold(n))[key] = <<>>

\* The outcome of the round a step has run.
Ran == rounds'[Len(rounds')]

\* C14: a round of a language leaves in the accumulated table of the
\* language every key the round did not produce with the value it had, and
\* gives every key the round produced the value of the round.
C14_LastWriteWins ==
    [][rounds' # rounds =>
          /\ Ran.lang = "french" =>
                fr_conn_alignments' =
                    [key \in DOMAIN fr_conn_alignments \cup DOMAIN Ran.table |->
                        IF key \in DOMAIN Ran.table THEN Ran.table[key]
                        ELSE fr_conn_alignments[key]]
          /\ Ran.lang = "german" =>
                de_conn_alignments' =
                    [key \in DOMAIN de_conn_alignments \cup DOMAIN Ran.table |->
                        IF key \in DOMAIN Ran.table THEN Ran.table[key]
                        ELSE de_conn_alignments[key]]]_vars

\* A later round has given a key another value than an earlier round of the
\* language.
C14_Witness ==
    \E m, n \in 1..Len(rounds) :
        /\ m < n /\ n = Len(rounds)
        /\ rounds[m].lang = "french" /\ rounds[n].lang = "french"
        /\ \E key \in DOMAIN rounds[m].table \cap DOMAIN rounds[n].table :
              /\ rounds[m].table[key] # rounds[n].table[key]
              /\ fr_conn_alignments[key] = rounds[n].table[key]

\* C15: a round of a language leaves every key of the Count Table of the
\* language in it, with its counts unless the round tallied the key, and the
\* table holds every key the round tallied.
C15_CountTableAccumulates ==
    [][rounds' # rounds =>
          /\ Ran.lang = "french" =>
                /\ DOMAIN fr_count' = DOMAIN fr_count \cup ToSet(Ran.lex)
                /\ \A key \in DOMAIN fr_count \ ToSet(Ran.lex) :
                      fr_count'[key] = fr_count[key]
          /\ Ran.lang = "german" =>
                /\ DOMAIN de_count' = DOMAIN de_count \cup ToSet(Ran.lex)
                /\ \A key \in DOMAIN de_count \ ToSet(Ran.lex) :
                      de_count'[key] = de_count[key]]_vars

\* A later round of French has tallied keys the Count Table did not hold.
C15_Witness ==
    \E m, n \in 1..Len(rounds) :
        /\ m < n /\ n = Len(rounds)
        /\ rounds[m].lang = "french" /\ rounds[n].lang = "french"
        /\ ToSet(rounds[m].lex) \ ToSet(rounds[n].lex) # {}
        /\ ToSet(rounds[n].lex) \ ToSet(rounds[m].lex) # {}
        /\ ToSet(rounds[m].lex) \cup ToSet(rounds[n].lex) \subseteq DOMAIN fr_count

\* C28: a round of a language leaves the Count Table and the accumulated
\* table of the other language, the lexicon of its own language and both
\* complete lexicons as they were.
C28_RoundFrame ==
    [][rounds' # rounds =>
          /\ all_fr_conns' = all_fr_conns
          /\ all_de_conns' = all_de_conns
          /\ Ran.lang = "french" =>
                /\ de_count' = de_count
                /\ de_conn_alignments' = de_conn_alignments
                /\ fr_lex' = fr_lex
          /\ Ran.lang = "german" =>
                /\ fr_count' = fr_count
                /\ fr_conn_alignments' = fr_conn_alignments
                /\ de_lex' = de_lex]_vars

\* A round of German has run on an object whose French tables were filled by
\* an earlier round, and has found new connectives.
C28_Witness ==
    /\ Len(rounds) > 1
    /\ rounds[Len(rounds)].lang = "german"
    /\ rounds[Len(rounds)].new_conns # {}
    /\ rounds[Len(rounds)].table # EmptyDict
    /\ \E key \in DOMAIN fr_conn_alignments : fr_conn_alignments[key] # <<>>
    /\ fr_count # EmptyDict

\* C29: a call of find_conns with a limit of at least one on an object that
\* an earlier call has used ends by returning, in its round number limit.
C29_RecallRunsLimitRounds ==
    [][(calls > 1 /\ frame.limit >= 1 /\ pc = "running" /\ pc' # "running") =>
          (pc' = "returned" /\ depth = frame.limit)]_vars

\* C30: no target of the table a round produces holds a token of the pronoun
\* list of the language of the targets.
C30_NoPronounInFinalTable ==
    \A n \in 1..Len(rounds) : \A key \in DOMAIN rounds[n].table :
        \A i \in 1..Len(rounds[n].table[key]) :
            ToSet(Split(rounds[n].table[key][i][1]))
                \cap Pronouns(OtherLang(rounds[n].lang)) = {}

(***************************************************************************)
(* The properties of the parsers                                           *)
(***************************************************************************)

\* A line in which every token has a "-" and a position part is no number.
Malformed(line) ==
    /\ ~PairError(line.index)
    /\ \E j \in 1..Len(AlignmentParts(line.index)) :
          \/ IntError(AlignmentParts(line.index)[j][1])
          \/ IntError(AlignmentParts(line.index)[j][2])

HasMalformedLine(lines) == \E i \in 1..Len(lines) : Malformed(lines[i])

\* C16: a corpus with a line in which a position part of a token is no
\* number makes each of the three parsers end in an error; no parser returns
\* dictionaries for it.
C16_MalformedTokenIsFatal ==
    (probe.op # "none" /\ HasMalformedLine(probe.corpus)) => probe.err

\* The preposition a contraction stands for.
Preposition(token) ==
    CASE token \in {"d'", "du", "des"} -> "de"
      [] token \in {"aux", "au"} -> "a"
      [] token \in {"zur", "zum"} -> "zu"
      [] token = "vom" -> "von"
      [] OTHER -> token

\* The space-joined phrase with its last token replaced by the preposition.
FinalRewritten(tokens) ==
    Join([i \in 1..Len(tokens) |->
            IF i = Len(tokens) THEN Preposition(tokens[i]) ELSE tokens[i]])

\* A line whose one German word is aligned with the whole French sentence,
\* which ends in a French contraction.
FrenchContractionLine(line) ==
    /\ line \in ParserLines
    /\ Len(Split(line.de)) = 1
    /\ Missing(IndexPairs(line.index), 2, Split(line.fr)) = <<>>
    /\ Last(Split(line.fr)) \in {"d'", "du", "des", "aux", "au"}

\* The mirror image: one French word aligned with a German sentence that
\* ends in a German contraction.
GermanContractionLine(line) ==
    /\ line \in ParserLines
    /\ Len(Split(line.fr)) = 1
    /\ Missing(IndexPairs(line.index), 1, Split(line.de)) = <<>>
    /\ Last(Split(line.de)) \in {"zur", "zum", "vom"}

\* C19: the target recorded for a phrase that ends in a contraction is the
\* space-joined phrase with only its last token replaced by the preposition.
C19_OnlyFinalTokenRewritten ==
    (probe.op = "parse_alignments" /\ ~probe.err /\ Len(probe.corpus) = 1) =>
        /\ FrenchContractionLine(probe.corpus[1]) =>
              probe.de_fr[probe.corpus[1].de] =
                  <<FinalRewritten(Split(probe.corpus[1].fr))>>
        /\ GermanContractionLine(probe.corpus[1]) =>
              probe.fr_de[probe.corpus[1].fr] =
                  <<FinalRewritten(Split(probe.corpus[1].de))>>

\* The scan of parse_phrase_alignments records the rewritten phrase as
\* remove_contractions returns it.
C19_ScanRewritesFinalToken ==
    (/\ probe.op = "parse_phrase_alignments" /\ ~probe.err
     /\ Len(probe.corpus) = 1 /\ probe.lang = 1
     /\ FrenchContractionLine(probe.corpus[1])
     /\ InList(probe.corpus[1].de, probe.phrases)) =>
        probe.phrase_alignments[probe.corpus[1].de] =
            <<FinalRewritten(Split(probe.corpus[1].fr))>>

\* A scan has recorded a rewritten French phrase of several tokens.
C19_ScanWitness ==
    /\ probe.op = "parse_phrase_alignments" /\ ~probe.err
    /\ probe.corpus = <<Line("0-0 0-1 0-2", "wegen", "du cote des")>>
    /\ probe.lang = 1
    /\ probe.phrase_alignments = ("wegen" :> <<"du cote de">>)

(***************************************************************************)
(* The properties of the filters                                           *)
(***************************************************************************)

\* The table without the targets that are held to a minimum above zero and
\* have no observation.
WithoutEvidence(table, word_count, phrase_count) ==
    [source \in DOMAIN table |->
        Select(table[source],
               {at \in 1..Len(table[source]) :
                   IF Len(Split(table[source][at][1])) = 1
                   THEN word_count <= 0 ELSE phrase_count <= 0})]

\* C17: remove_low_counts raises nothing for a table with a source key the
\* count table does not hold, and filters the key as one with no observation.
C17_RemoveLowCountsIsTotal ==
    (probe.op = "remove_low_counts" /\ "mais" \notin DOMAIN probe.count_dict) =>
        /\ ~probe.err
        /\ probe.out = WithoutEvidence(probe.table, probe.word_count,
                                       probe.phrase_count)

\* C18: after the call of a filter the table passed in has the contents it
\* had before the call.
C18_FiltersLeaveInputUnchanged ==
    probe.op # "none" => probe.after = probe.table

\* The threshold for the shape of a target is above its probability.
BelowThreshold(target, probability, word_threshold, phrase_threshold) ==
    \/ Len(Split(target)) = 1 /\ FracLess(probability, word_threshold)
    \/ Len(Split(target)) > 1 /\ FracLess(probability, phrase_threshold)

\* C20: filter_most_common_conns keeps every source key, removes the targets
\* whose probability is strictly below the threshold for their shape and no
\* other, and keeps the probability and the order of the targets it keeps.
C20_ThresholdFilter ==
    probe.op = "filter_most_common_conns" =>
        /\ DOMAIN probe.out = DOMAIN probe.table
        /\ \A source \in DOMAIN probe.table :
              probe.out[source] =
                  SelectList(probe.table[source],
                      {at \in 1..Len(probe.table[source]) :
                          ~BelowThreshold(probe.table[source][at][1],
                                          probe.table[source][at][2],
                                          probe.word_threshold,
                                          probe.phrase_threshold)}, 1)

\* The filter has removed a target below its threshold and kept a word at
\* the word threshold, a phrase at the phrase threshold or above and the
\* empty target.
C20_Witness ==
    /\ probe.op = "filter_most_common_conns"
    /\ \E source \in DOMAIN probe.table :
          /\ \E at \in 1..Len(probe.table[source]) :
                /\ Len(Split(probe.table[source][at][1])) = 1
                /\ probe.table[source][at][2] = probe.word_threshold
                /\ InList(probe.table[source][at], probe.out[source])
          /\ \E at \in 1..Len(probe.table[source]) :
                /\ Len(Split(probe.table[source][at][1])) > 1
                /\ FracLess(probe.table[source][at][2], probe.phrase_threshold)
                /\ ~InList(probe.table[source][at], probe.out[source])
          /\ \E at \in 1..Len(probe.table[source]) :
                /\ probe.table[source][at][1] = ""
                /\ FracLess(probe.table[source][at][2], probe.word_threshold)
                /\ InList(probe.table[source][at], probe.out[source])

\* The phrase targets of a list of targets that the final-token step of
\* filter_unlikely_alignments leaves, each with its probability.
RemainingPhrases(targets, lang) ==
    {targets[at] : at \in {i \in 1..Len(targets) :
        /\ Len(Split(targets[i][1])) > 1
        /\ Last(Split(targets[i][1])) \notin UnlikelyWords(lang)}}

\* C21: after filter_unlikely_alignments, a remaining phrase that is a part of
\* another remaining phrase with another number of tokens, has a probability
\* below 0.18 and less than 3 times that of the other is not a target any
\* more, whatever the order of the targets.
C21_ShorterPhraseDropped ==
    probe.op = "filter_unlikely_alignments" =>
        \A source \in DOMAIN probe.table :
            \A S, T \in RemainingPhrases(probe.table[source], probe.lang) :
                (/\ S[1] # T[1]
                 /\ StrIn(S[1], T[1])
                 /\ Len(Split(S[1])) # Len(Split(T[1]))
                 /\ FracLess(S[2], ShortLimit)
                 /\ FracLess(FracDiv(S[2], T[2]), Frac(RatioLimit, 1)))
                => ~HasKey(probe.out[source], S[1])

\* A phrase of at least three tokens without a gap marker, with the first and
\* the last token of the gapped target.
CompletePhraseOf(target, other) ==
    /\ Len(Split(other)) >= 3
    /\ ~InList("...", Split(other))
    /\ Split(target)[1] = Split(other)[1]
    /\ Last(Split(target)) = Last(Split(other))

\* C22: remove_incomplete_phrases removes a gapped target of a source key
\* whenever a complete phrase with the same first and last token is a target
\* of the source key too.
C22_GappedTargetRemoved ==
    probe.op = "remove_incomplete_phrases" =>
        \A source \in DOMAIN probe.table :
            \A i, j \in 1..Len(probe.table[source]) :
                (/\ Gapped(probe.table[source][i][1])
                 /\ CompletePhraseOf(probe.table[source][i][1],
                                     probe.table[source][j][1]))
                => ~HasKey(probe.out[source], probe.table[source][i][1])

\* C23: complete_phrases preserves the probability mass of every source key:
\* the probability of a replaced gapped target is carried by the lexicon entry.
C23_MassPreserved ==
    probe.op = "complete_phrases" =>
        \A source \in DOMAIN probe.table :
            SumProbs(probe.out[source], 1) = SumProbs(probe.table[source], 1)

(***************************************************************************)
(* The properties of remove_punct_phrases                                  *)
(***************************************************************************)

\* The tokens without a leading and without a trailing punctuation token.
WithoutOuterPunctuation(tokens) ==
    LET first == IF StrIn(tokens[1], punctuation) THEN 2 ELSE 1
        last == IF StrIn(tokens[Len(tokens)], punctuation)
                THEN Len(tokens) - 1 ELSE Len(tokens)
    IN  SubSeq(tokens, first, last)

\* C27: for a list of more than one token the result of remove_punct_phrases
\* is the list without its leading and trailing punctuation token and without
\* gap markers at its ends: it neither begins nor ends with a gap marker and
\* every gap marker between two kept tokens is kept.
C27_CleanedPhrase ==
    (probe.op = "remove_punct_phrases" /\ Len(probe.tokens) > 1) =>
        LET inner == WithoutOuterPunctuation(probe.tokens)
        IN  /\ probe.out # <<>> =>
                  probe.out[1] # "..." /\ probe.out[Len(probe.out)] # "..."
            /\ \E i, j \in 0..(Len(inner) + 1) :
                  /\ probe.out = SubSeq(inner, i, j)
                  /\ \A h \in 1..Len(inner) : (h < i \/ h > j) => inner[h] = "..."

(***************************************************************************)
(* The properties of the detection of discontinuous spans                  *)
(***************************************************************************)

\* The phrase candidates of a line before the spans are marked: German
\* positions with the list of the French positions aligned with them, and
\* French positions with the list of the German positions.
CandidatesDe(line) ==
    GroupBy(GroupBy(IndexPairs(line.index), 2, 1), 2, 1)

CandidatesFr(line) ==
    GroupBy(GroupBy(IndexPairs(line.index), 1, 2), 2, 1)

\* The key under which the candidate of the positions k is recorded.
SourceKey(k, sentence) == Join(remove_punct_phrases(Resolve(k, sentence)))

\* The positions i of the list v at which two numbers stand whose distance
\* is in the set dists.
Apart(v, dists) ==
    {i \in 1..(Len(v) - 1) :
        /\ isnumeric(v[i]) /\ isnumeric(v[i + 1])
        /\ Abs(IntOf(v[i]) - IntOf(v[i + 1])) \in dists}

\* The token of the sentence at a position given as a string.
TokenAt(sentence, position) == sentence[IntOf(position) + 1]

\* Some text recorded for the key has the token between directly between the
\* tokens first and second.
Joined(d, key, first, between, second) ==
    /\ key \in DOMAIN d
    /\ \E t \in 1..Len(d[key]) :
          \E j \in 1..(Len(Split(d[key][t])) - 2) :
              SubSeq(Split(d[key][t]), j, j + 2) = <<first, between, second>>

\* C24: in the dictionaries of parse_alignments every two consecutive
\* positions of a phrase candidate that are more than 1 apart (German to
\* French) or more than 2 apart (French to German) have a gap marker between
\* their tokens, however many such pairs the candidate holds.
C24_EveryGapMarked ==
    (probe.op = "parse_alignments" /\ ~probe.err) =>
        \A n \in 1..Len(probe.corpus) :
            LET line == probe.corpus[n]
                german == Split(line.de)
                french == Split(line.fr)
            IN  /\ \A c \in 1..Len(CandidatesDe(line)) :
                      LET k == CandidatesDe(line)[c][1]
                          v == CandidatesDe(line)[c][2]
                      IN  \A i \in Apart(v, 2..Len(french)) :
                              Joined(probe.de_fr, SourceKey(k, german),
                                     TokenAt(french, v[i]), "...",
                                     TokenAt(french, v[i + 1]))
                /\ \A c \in 1..Len(CandidatesFr(line)) :
                      LET k == CandidatesFr(line)[c][1]
                          v == CandidatesFr(line)[c][2]
                      IN  \A i \in Apart(v, 3..Len(german)) :
                              Joined(probe.fr_de, SourceKey(k, french),
                                     TokenAt(german, v[i]), "...",
                                     TokenAt(german, v[i + 1]))

\* The literal the rule for a distance of 2 puts after the position first: a
\* comma if the token one past it is a comma, a gap marker otherwise.
CommaOrGap(sentence, first) ==
    IF IntOf(first) + 2 <= Len(sentence) /\ sentence[IntOf(first) + 2] = ","
    THEN "," ELSE "..."

\* The target positions one of the scans collects for a phrase of one word
\* found at the 0-based position at of the source sentence.
ScanTargets(line, lang, at) ==
    UniqueSorted(TargetsOf(IntPairs(line.index), lang, <<at>>, 1))

\* C25: two consecutive positions exactly 2 apart are joined by a comma if
\* the token one past the first position is a comma and by a gap marker
\* otherwise, in the French-to-German dictionary of parse_alignments and in
\* the scans (stated for the phrases of one word of parse_phrase_alignments);
\* in the German-to-French dictionary of parse_alignments they are always
\* joined by a gap marker.
C25_DistanceTwo ==
    /\ (probe.op = "parse_alignments" /\ ~probe.err) =>
          \A n \in 1..Len(probe.corpus) :
              LET line == probe.corpus[n]
                  german == Split(line.de)
                  french == Split(line.fr)
              IN  /\ \A c \in 1..Len(CandidatesDe(line)) :
                        LET k == CandidatesDe(line)[c][1]
                            v == CandidatesDe(line)[c][2]
                        IN  \A i \in Apart(v, {2}) :
                                Joined(probe.de_fr, SourceKey(k, german),
                                       TokenAt(french, v[i]), "...",
                                       TokenAt(french, v[i + 1]))
                  /\ \A c \in 1..Len(CandidatesFr(line)) :
                        LET k == CandidatesFr(line)[c][1]
                            v == CandidatesFr(line)[c][2]
                        IN  \A i \in Apart(v, {2}) :
                                Joined(probe.fr_de, SourceKey(k, french),
                                       TokenAt(german, v[i]),
                                       CommaOrGap(german, v[i]),
                                       TokenAt(german, v[i + 1]))
    /\ (probe.op = "parse_phrase_alignments" /\ ~probe.err) =>
          \A n \in 1..Len(probe.corpus), p \in 1..Len(probe.phrases) :
              LET line == probe.corpus[n]
                  source_tok == Split(IF probe.lang = 1 THEN line.de ELSE line.fr)
                  target_tok == Split(IF probe.lang = 1 THEN line.fr ELSE line.de)
                  phrase_ == probe.phrases[p]
              IN  \A at \in Matches(source_tok, <<phrase_>>) :
                      LET v == ScanTargets(line, probe.lang, at)
                      IN  \A i \in Apart(v, {2}) :
                              Joined(probe.phrase_alignments, phrase_,
                                     TokenAt(target_tok, v[i]),
                                     CommaOrGap(target_tok, v[i]),
                                     TokenAt(target_tok, v[i + 1]))

\* Every token of the alignment is a pair of positions of the two sentences.
WellFormed(line) ==
    /\ ~PairError(line.index)
    /\ \A i \in 1..Len(IndexPairs(line.index)) :
          LET pair == IndexPairs(line.index)[i]
          IN  /\ isnumeric(pair[1]) /\ IntOf(pair[1]) < Len(Split(line.de))
              /\ isnumeric(pair[2]) /\ IntOf(pair[2]) < Len(Split(line.fr))

\* C26: whatever the order of the pairs on a well-formed alignment line, the
\* detection of discontinuous spans compares positions in ascending order and
\* the token the comma rule inspects, one past the first position, is a
\* position of the sentence: parse_alignments and parse_phrase_alignments
\* never fail on well-formed lines.
C26_InspectedTokenExists ==
    (/\ probe.op \in {"parse_alignments", "parse_phrase_alignments"}
     /\ \A n \in 1..Len(probe.corpus) : WellFormed(probe.corpus[n]))
    => ~probe.err
====
